---------------------------- MODULE Spec2Model ----------------------------
(***************************************************************************)
(* ChronoBank: accounts holding time (seconds), the State-pattern account  *)
(* operations, the Command-pattern transactions with undo, the fraud       *)
(* check, the tax / bonus post-steps, loans and investments.               *)
(*                                                                         *)
(* The database is modelled on two levels.  The variables balance, status, *)
(* rep, txs, alerts, loans and invs are the committed rows.  A handler     *)
(* works on a copy of them (its SQLAlchemy session); what it commits       *)
(* becomes the new rows, and what it leaves uncommitted when it returns is *)
(* kept in sess until the request is torn down.                            *)
(***************************************************************************)
EXTENDS Integers, Sequences, FiniteSets, TLC

\* ------------------------------------------------------------------ bounds
MaxTx == 4
MaxAlerts == 1
MaxBal == 7200
RepDrift == 5
MaxNow == 8
MaxInv == 2
MaxLoans == 1
MaxAdjust == 2

\* --------------------------------------------------------------- constants
MAX_TRANSACTION_AMOUNT == 10000
FRAUD_RISK_THRESHOLD == 7
SavingsMinBalance == 3600
DefaultMinBalance == 0
TaxPercentage == 2
DepositBonusPercentage == 5
SavingsBonusPercentage == 10
MaxActiveLoans == 3
AdjustWindowDays == 7
MinEffectiveRate == 10000

None == 0
Acct == {1, 2}
AcctOrNone == Acct \cup {None}

\* account 1 is a SavingsAccount, account 2 is of a type with the defaults
TypeName == <<"SavingsAccount", "BasicAccount">>
MinBalance == <<SavingsMinBalance, DefaultMinBalance>>

\* both accounts belong to user 1; reputation is kept in tenths (100 -> 1000)
User == {1}
Owner == <<1, 1>>
InitBalance == <<3600, 3600>>
InitReputation == <<1000>>

Amounts == {0, 1800, 34200}
DepositAmounts == {0, 1700, 1800}

\* AccountType.interest_rate in percent: 0.07 for SavingsAccount, the column
\* default 0.0 otherwise
InterestRatePct == <<7, 0>>
InvAmounts == {0, 1800}
InvTerms == {1, 2}

LoanAmounts == {3600}
LoanTerms == {7}
Strategies == {"FIXED", "DYNAMIC", "EARLY"}
Payments == {0, 1800, 7200}
\* random.uniform(-0.02, 0.02) in millionths: both ends and the middle
MarketAdjustments == {-20000, 0, 20000}

VARIABLES balance, status, rep, txs, alerts, loans, invs, now, sess, last

vars == <<balance, status, rep, txs, alerts, loans, invs, now, sess, last>>

Min(a, b) == IF a < b THEN a ELSE b
Max(a, b) == IF a > b THEN a ELSE b

\* ---------------------------------------------------- binary floating point
\* Python's float is the IEEE 754 double: 53 significant bits, every operation
\* rounded to the nearest double, ties to even.  A double is m * 2^e with m a
\* natural number below 2^53 (a power of two may be held as 2^53 itself).  m
\* does not fit TLC's integers: a natural number of any size is a sequence of
\* limbs in base 2^15, the least significant first.
Limb == 32768
MantissaBits == 53

RECURSIVE Pow2(_)
Pow2(n) == IF n = 0 THEN 1 ELSE 2 * Pow2(n - 1)

RECURSIVE BitsOf(_)
BitsOf(n) == IF n = 0 THEN 0 ELSE 1 + BitsOf(n \div 2)

NatOf(n) == <<n % Limb, (n \div Limb) % Limb, n \div (Limb * Limb)>>

RECURSIVE NatTrim(_)
NatTrim(a) ==
    IF a # <<>> /\ a[Len(a)] = 0 THEN NatTrim(SubSeq(a, 1, Len(a) - 1)) ELSE a

IntOf(a) ==
    LET t == NatTrim(a)
    IN (IF Len(t) >= 1 THEN t[1] ELSE 0) + (IF Len(t) >= 2 THEN t[2] * Limb ELSE 0)
       + (IF Len(t) >= 3 THEN t[3] * Limb * Limb ELSE 0)

RECURSIVE NatAddFrom(_, _, _, _)
NatAddFrom(a, b, i, c) ==
    IF i > Len(a) /\ i > Len(b) THEN IF c = 0 THEN <<>> ELSE <<c>>
    ELSE LET t == (IF i <= Len(a) THEN a[i] ELSE 0) + (IF i <= Len(b) THEN b[i] ELSE 0) + c
         IN <<t % Limb>> \o NatAddFrom(a, b, i + 1, t \div Limb)

NatAdd(a, b) == NatAddFrom(a, b, 1, 0)

\* a * k for 0 <= k <= 2^15
RECURSIVE NatMulSmallFrom(_, _, _, _)
NatMulSmallFrom(a, k, i, c) ==
    IF i > Len(a) THEN IF c = 0 THEN <<>> ELSE <<c>>
    ELSE LET t == a[i] * k + c
         IN <<t % Limb>> \o NatMulSmallFrom(a, k, i + 1, t \div Limb)

NatMulSmall(a, k) == NatMulSmallFrom(a, k, 1, 0)

RECURSIVE NatMulFrom(_, _, _)
NatMulFrom(a, b, j) ==
    IF j > Len(b) THEN <<>>
    ELSE NatAdd(NatMulSmall(a, b[j]), <<0>> \o NatMulFrom(a, b, j + 1))

NatMul(a, b) == NatMulFrom(a, b, 1)

\* quotient and remainder of a by d, for 1 <= d <= 2^15
RECURSIVE NatDivSmallFrom(_, _, _, _)
NatDivSmallFrom(a, d, i, r) ==
    IF i > Len(a) THEN [q |-> <<>>, r |-> r]
    ELSE LET cur == r * Limb + a[Len(a) + 1 - i]
             rest == NatDivSmallFrom(a, d, i + 1, cur % d)
         IN [q |-> Append(rest.q, cur \div d), r |-> rest.r]

NatDivSmall(a, d) == NatDivSmallFrom(a, d, 1, 0)

BitLen(a) ==
    LET t == NatTrim(a)
    IN IF t = <<>> THEN 0 ELSE 15 * (Len(t) - 1) + BitsOf(t[Len(t)])

IsOdd(a) == a # <<>> /\ a[1] % 2 = 1

ShiftLeft(a, s) == [i \in 1..(s \div 15) |-> 0] \o NatMulSmall(a, Pow2(s % 15))

\* floor(a / 2^s), and whether bits were lost
ShiftRight(a, s) ==
    LET k == Min(s \div 15, Len(a))
        d == NatDivSmall(SubSeq(a, k + 1, Len(a)), Pow2(s % 15))
    IN [q |-> d.q, sticky |-> d.r # 0 \/ \E i \in 1..k : a[i] # 0]

\* the double nearest to m * 2^e, ties to even
RoundToDouble(m, e) ==
    LET n == BitLen(m)
    IN IF n <= MantissaBits THEN [m |-> NatTrim(m), e |-> e]
       ELSE LET s == n - MantissaBits
                h == ShiftRight(m, s - 1)
                fl == NatDivSmall(h.q, 2).q
                up == IsOdd(h.q) /\ (h.sticky \/ IsOdd(fl))
            IN [m |-> NatTrim(IF up THEN NatAdd(fl, <<1>>) ELSE fl), e |-> e + s]

DoubleOfInt(n) == [m |-> NatTrim(NatOf(n)), e |-> 0]

\* p / q of two small integers; also the double a decimal literal p/q denotes
DoubleDiv(p, q) ==
    LET d == NatDivSmall(ShiftLeft(NatOf(p), 75), q)
    IN RoundToDouble(NatAdd(ShiftLeft(d.q, 1), IF d.r # 0 THEN <<1>> ELSE <<>>), -76)

DoubleMul(x, y) == RoundToDouble(NatMul(x.m, y.m), x.e + y.e)

DoubleAdd(x, y) ==
    LET e == Min(x.e, y.e)
    IN RoundToDouble(NatAdd(ShiftLeft(x.m, x.e - e), ShiftLeft(y.m, y.e - e)), e)

\* int(x) for x >= 0
DoubleToInt(x) ==
    IF x.e >= 0 THEN IntOf(ShiftLeft(x.m, x.e)) ELSE IntOf(ShiftRight(x.m, -x.e).q)

\* the committed rows a handler starts from
Db == [bal |-> balance, st |-> status, rep |-> rep, txs |-> txs, alerts |-> alerts]

NoSess == [dirty |-> FALSE]
Dirty(D) == [dirty |-> TRUE, bal |-> D.bal, st |-> D.st, txs |-> D.txs]

NoPre == <<>>
NoLast == [op |-> "init", ok |-> TRUE, src |-> None, dst |-> None, amt |-> 0, tx |-> None, pre |-> NoPre]

NewTx(type, s, d, amt, stat) ==
    [type |-> type, src |-> s, dst |-> d, amount |-> amt, status |-> stat, recent |-> TRUE]

Ok(D) == [db |-> D, ok |-> TRUE]
Fail(D) == [db |-> D, ok |-> FALSE]

\* ------------------------------------------------------------ models.Account
AccountDeposit(D, a, amt) ==
    IF amt <= 0 THEN Fail(D)
    ELSE Ok([D EXCEPT !.bal[a] = @ + amt])

AccountWithdraw(D, a, amt) ==
    IF amt <= 0 \/ D.bal[a] < amt THEN Fail(D)
    ELSE LET nb == D.bal[a] - amt
         IN Ok([D EXCEPT !.bal[a] = nb,
                         !.st[a] = IF nb < MinBalance[a] THEN "OVERDRAWN" ELSE @])

AccountTransfer(D, s, d, amt) ==
    IF amt <= 0 \/ D.bal[s] < amt THEN Fail(D)
    ELSE LET w == AccountWithdraw(D, s, amt)
         IN IF w.ok THEN AccountDeposit(w.db, d, amt) ELSE Fail(D)

AccountFreeze(D, a) == [D EXCEPT !.st[a] = "FROZEN"]

AccountUnfreeze(D, a) ==
    [D EXCEPT !.st[a] = IF D.bal[a] < MinBalance[a] THEN "OVERDRAWN" ELSE "ACTIVE"]

\* --------------------------------------------------- patterns.behavioral.state
ActiveStateDeposit(D, a, amt) ==
    IF amt <= 0 THEN Fail(D)
    ELSE Ok([D EXCEPT !.bal[a] = @ + amt])

ActiveStateWithdrawUnchecked(D, a, amt) ==
    IF amt <= 0 THEN Fail(D)
    ELSE LET nb == D.bal[a] - amt
         IN Ok([D EXCEPT !.bal[a] = nb,
                         !.st[a] = IF nb < MinBalance[a] THEN "OVERDRAWN" ELSE @])

ActiveStateWithdraw(D, a, amt) ==
    IF amt <= 0 \/ D.bal[a] < amt THEN Fail(D)
    ELSE LET nb == D.bal[a] - amt
         IN Ok([D EXCEPT !.bal[a] = nb,
                         !.st[a] = IF nb < MinBalance[a] THEN "OVERDRAWN" ELSE @])

OverdrawnStateDeposit(D, a, amt) ==
    IF amt <= 0 THEN Fail(D)
    ELSE LET nb == D.bal[a] + amt
         IN Ok([D EXCEPT !.bal[a] = nb,
                         !.st[a] = IF nb >= MinBalance[a] THEN "ACTIVE" ELSE @])

OverdrawnStateWithdraw(D, a, amt) == Fail(D)

FrozenStateDeposit(D, a, amt) == Fail(D)

FrozenStateWithdraw(D, a, amt) == Fail(D)

\* get_account_state(status).deposit / .withdraw
StateDeposit(D, a, amt) ==
    CASE D.st[a] = "OVERDRAWN" -> OverdrawnStateDeposit(D, a, amt)
      [] D.st[a] = "FROZEN" -> FrozenStateDeposit(D, a, amt)
      [] OTHER -> ActiveStateDeposit(D, a, amt)

StateWithdraw(D, a, amt) ==
    CASE D.st[a] = "OVERDRAWN" -> OverdrawnStateWithdraw(D, a, amt)
      [] D.st[a] = "FROZEN" -> FrozenStateWithdraw(D, a, amt)
      [] OTHER -> ActiveStateWithdraw(D, a, amt)

ActiveStateTransferNoRollback(D, s, d, amt) ==
    IF amt <= 0 \/ D.bal[s] < amt THEN Fail(D)
    ELSE LET nb == D.bal[s] - amt
             D1 == [D EXCEPT !.bal[s] = nb,
                             !.st[s] = IF nb < MinBalance[s] THEN "OVERDRAWN" ELSE @]
             dep == StateDeposit(D1, d, amt)
         IN IF dep.ok THEN dep ELSE Fail(D1)

ActiveStateTransfer(D, s, d, amt) ==
    IF amt <= 0 \/ D.bal[s] < amt THEN Fail(D)
    ELSE IF D.st[d] = "FROZEN" THEN Fail(D)
    ELSE LET nb == D.bal[s] - amt
             D1 == [D EXCEPT !.bal[s] = nb,
                             !.st[s] = IF nb < MinBalance[s] THEN "OVERDRAWN" ELSE @]
             dep == StateDeposit(D1, d, amt)
         IN IF dep.ok THEN dep
            ELSE LET rb == D1.bal[s] + amt
                 IN Fail([D1 EXCEPT !.bal[s] = rb,
                                    !.st[s] = IF D1.st[s] = "OVERDRAWN" /\ rb >= MinBalance[s]
                                              THEN "ACTIVE" ELSE @])

OverdrawnStateTransfer(D, s, d, amt) == Fail(D)

FrozenStateTransferAllowed(D, s, d, amt) ==
    IF amt <= 0 \/ D.bal[s] < amt THEN Fail(D)
    ELSE Ok([D EXCEPT !.bal[s] = @ - amt, !.bal[d] = @ + amt])

FrozenStateTransfer(D, s, d, amt) == Fail(D)

StateTransfer(D, s, d, amt) ==
    CASE D.st[s] = "OVERDRAWN" -> OverdrawnStateTransfer(D, s, d, amt)
      [] D.st[s] = "FROZEN" -> FrozenStateTransfer(D, s, d, amt)
      [] OTHER -> ActiveStateTransfer(D, s, d, amt)

\* ------------------------------------------------- services.fraud_detection
\* mutant: the Failed records of rejected attempts are left out of the count
RecentOutCompleted(D, a) ==
    Cardinality({i \in 1..Len(D.txs) : D.txs[i].src = a /\ D.txs[i].recent
                                        /\ D.txs[i].status # "FAILED"})

RecentOut(D, a) == Cardinality({i \in 1..Len(D.txs) : D.txs[i].src = a /\ D.txs[i].recent})

RecentIn(D, a) == Cardinality({i \in 1..Len(D.txs) : D.txs[i].dst = a /\ D.txs[i].recent})

\* mutant: the score without its baseline
RiskScoreOfNoBaseline(amt, hasS, sBal, sRecent, sRep, hasD, dRecent, dRep) ==
      (IF amt > MAX_TRANSACTION_AMOUNT THEN 4 ELSE 0)
    + (IF hasS /\ 2 * amt > sBal THEN 4 ELSE 0)
    + (IF hasS /\ sRecent > 2 THEN 3 ELSE 0)
    + (IF hasS /\ sRep < 900 THEN 3 ELSE 0)
    + (IF hasD /\ dRecent > 2 THEN 2 ELSE 0)
    + (IF hasD /\ dRep < 900 THEN 2 ELSE 0)

\* mutant: the score without the source owner's reputation
RiskScoreOfNoReputation(amt, hasS, sBal, sRecent, sRep, hasD, dRecent, dRep) ==
      (IF amt > MAX_TRANSACTION_AMOUNT THEN 4 ELSE 0)
    + (IF hasS /\ 2 * amt > sBal THEN 4 ELSE 0)
    + (IF hasS /\ sRecent > 2 THEN 3 ELSE 0)
    + (IF hasD /\ dRecent > 2 THEN 2 ELSE 0)
    + (IF hasD /\ dRep < 900 THEN 2 ELSE 0)
    + 1

\* the risk score in tenths, from the rows check_transaction reads: the amount,
\* whether each account exists, the source balance, the numbers of records of
\* the last hour and the owners' reputations (in tenths of a point)
RiskScoreOf(amt, hasS, sBal, sRecent, sRep, hasD, dRecent, dRep) ==
      (IF amt > MAX_TRANSACTION_AMOUNT THEN 4 ELSE 0)
    + (IF hasS /\ 2 * amt > sBal THEN 4 ELSE 0)
    + (IF hasS /\ sRecent > 2 THEN 3 ELSE 0)
    + (IF hasS /\ sRep < 900 THEN 3 ELSE 0)
    + (IF hasD /\ dRecent > 2 THEN 2 ELSE 0)
    + (IF hasD /\ dRep < 900 THEN 2 ELSE 0)
    + 1

RiskScore(D, s, d, amt) ==
    RiskScoreOf(amt,
                s # None,
                IF s # None THEN D.bal[s] ELSE 0,
                IF s # None THEN RecentOut(D, s) ELSE 0,
                IF s # None THEN D.rep[Owner[s]] ELSE 0,
                d # None,
                IF d # None THEN RecentIn(D, d) ELSE 0,
                IF d # None THEN D.rep[Owner[d]] ELSE 0)

IsSafe(score) == score < FRAUD_RISK_THRESHOLD

\* the Open alert and the Failed record of an unsafe check
FlagUnsafe(D, s, d, amt) ==
    [D EXCEPT !.txs = Append(@, NewTx("Transfer", s, d, amt, "FAILED")),
              !.alerts = Append(@, [account |-> s, tx |-> Len(D.txs) + 1,
                                    status |-> "OPEN"])]

CheckTransaction(D, s, d, amt) ==
    LET safe == IsSafe(RiskScore(D, s, d, amt))
    IN IF safe \/ s = None THEN [db |-> D, ok |-> safe]
       ELSE [db |-> FlagUnsafe(D, s, d, amt), ok |-> FALSE]

\* ---------------------------------------------------- services.account_service
AccountServiceDeposit(D, a, amt) ==
    IF D.st[a] = "FROZEN" THEN Fail(D)
    ELSE LET f == CheckTransaction(D, None, a, amt)
         IN IF ~f.ok THEN f ELSE StateDeposit(f.db, a, amt)

AccountServiceWithdraw(D, a, amt) ==
    IF D.st[a] = "FROZEN" THEN Fail(D)
    ELSE LET f == CheckTransaction(D, a, None, amt)
         IN IF ~f.ok THEN f ELSE StateWithdraw(f.db, a, amt)

AccountServiceTransfer(D, s, d, amt) == StateTransfer(D, s, d, amt)

\* ---------------------------------------------------- models.Transaction
ReverseAnyStatus(D, t) ==
    LET x == D.txs[t]
        done(E) == Ok([E EXCEPT !.txs[t].status = "REVERSED"])
    IN IF x.src # None /\ x.dst # None
       THEN LET w == AccountWithdraw(D, x.dst, x.amount)
            IN IF ~w.ok THEN Fail(D)
               ELSE LET c == AccountDeposit(w.db, x.src, x.amount)
                    IN IF c.ok THEN done(c.db) ELSE Fail(D)
       ELSE IF x.dst # None
            THEN LET w == AccountWithdraw(D, x.dst, x.amount)
                 IN IF w.ok THEN done(w.db) ELSE Fail(D)
       ELSE IF x.src # None
            THEN LET c == AccountDeposit(D, x.src, x.amount)
                 IN IF c.ok THEN done(c.db) ELSE Fail(D)
       ELSE done(D)

Reverse(D, t) ==
    LET x == D.txs[t]
        done(E) == Ok([E EXCEPT !.txs[t].status = "REVERSED"])
    IN IF x.status # "COMPLETED" THEN Fail(D)
       ELSE IF x.src # None /\ x.dst # None
            THEN LET w == AccountWithdraw(D, x.dst, x.amount)
                 IN IF ~w.ok THEN Fail(D)
                    ELSE LET c == AccountDeposit(w.db, x.src, x.amount)
                         IN IF c.ok THEN done(c.db) ELSE Fail(D)
       ELSE IF x.dst # None
            THEN LET w == AccountWithdraw(D, x.dst, x.amount)
                 IN IF w.ok THEN done(w.db) ELSE Fail(D)
       ELSE IF x.src # None
            THEN LET c == AccountDeposit(D, x.src, x.amount)
                 IN IF c.ok THEN done(c.db) ELSE Fail(D)
       ELSE done(D)

\* ------------------------------------------------ patterns.behavioral.command
TxResult(D, ok, t) == [db |-> D, ok |-> ok, tx |-> t]

\* mutant: the destination's status is tested after the source has been debited
TransferCommandExecuteDebitsFirst(D, s, d, amt) ==
    IF D.st[s] # "ACTIVE" \/ D.bal[s] < amt THEN TxResult(D, FALSE, None)
    ELSE IF D.st[d] # "ACTIVE" THEN TxResult([D EXCEPT !.bal[s] = @ - amt], FALSE, None)
    ELSE LET P == [D EXCEPT !.txs = Append(@, NewTx("Transfer", s, d, amt, "PENDING"))]
             t == Len(P.txs)
             r == AccountTransfer(P, s, d, amt)
         IN IF r.ok THEN TxResult([r.db EXCEPT !.txs[t].status = "COMPLETED"], TRUE, t)
            ELSE TxResult(D, FALSE, None)

TransferCommandExecute(D, s, d, amt) ==
    IF D.st[s] # "ACTIVE" \/ D.st[d] # "ACTIVE" \/ D.bal[s] < amt THEN TxResult(D, FALSE, None)
    ELSE LET P == [D EXCEPT !.txs = Append(@, NewTx("Transfer", s, d, amt, "PENDING"))]
             t == Len(P.txs)
             r == AccountTransfer(P, s, d, amt)
         IN IF r.ok THEN TxResult([r.db EXCEPT !.txs[t].status = "COMPLETED"], TRUE, t)
            ELSE TxResult(D, FALSE, None)

DepositCommandExecute(D, a, amt) ==
    IF D.st[a] \notin {"ACTIVE", "OVERDRAWN"} THEN TxResult(D, FALSE, None)
    ELSE LET P == [D EXCEPT !.txs = Append(@, NewTx("Deposit", None, a, amt, "PENDING"))]
             t == Len(P.txs)
             r == AccountDeposit(P, a, amt)
         IN IF r.ok
            THEN TxResult([r.db EXCEPT
                              !.st[a] = IF @ = "OVERDRAWN" /\ r.db.bal[a] >= MinBalance[a]
                                        THEN "ACTIVE" ELSE @,
                              !.txs[t].status = "COMPLETED"], TRUE, t)
            ELSE TxResult(D, FALSE, None)

\* ----------------------------------------------- patterns.structural.decorator
Percent(amt, pct) == (amt * pct) \div 100

\* mutant: the tax is withdrawn from the source account of the transfer
ApplyTaxFromSource(R, pct) ==
    IF ~R.ok \/ R.tx = None THEN R
    ELSE LET x == R.db.txs[R.tx]
             tax == Percent(x.amount, pct)
         IN IF x.type # "Transfer" \/ x.dst = None \/ R.db.bal[x.src] < tax THEN R
            ELSE LET w == AccountWithdraw(R.db, x.src, tax)
                 IN IF ~w.ok THEN R
                    ELSE [R EXCEPT !.db = [w.db EXCEPT !.txs =
                              Append(@, NewTx("Fee", x.dst, None, tax, "COMPLETED"))]]

ApplyTax(R, pct) ==
    IF ~R.ok \/ R.tx = None THEN R
    ELSE LET x == R.db.txs[R.tx]
             tax == Percent(x.amount, pct)
         IN IF x.type # "Transfer" \/ x.dst = None \/ R.db.bal[x.dst] < tax THEN R
            ELSE LET w == AccountWithdraw(R.db, x.dst, tax)
                 IN IF ~w.ok THEN R
                    ELSE [R EXCEPT !.db = [w.db EXCEPT !.txs =
                              Append(@, NewTx("Fee", x.dst, None, tax, "COMPLETED"))]]

ApplyBonus(R, pct) ==
    IF ~R.ok \/ R.tx = None THEN R
    ELSE LET x == R.db.txs[R.tx]
             bonus == Percent(x.amount, pct)
         IN IF x.type # "Deposit" \/ x.dst = None THEN R
            ELSE LET c == AccountDeposit(R.db, x.dst, bonus)
                 IN IF ~c.ok THEN R
                    ELSE [R EXCEPT !.db = [c.db EXCEPT !.txs =
                              Append(@, NewTx("Deposit", None, x.dst, bonus, "COMPLETED"))]]

\* ------------------------------------------------ services.transaction_service
TransactionServiceTransfer(D, s, d, amt) ==
    IF D.st[s] = "FROZEN" THEN TxResult(D, FALSE, None)
    ELSE LET f == CheckTransaction(D, s, d, amt)
         IN IF ~f.ok THEN TxResult(f.db, FALSE, None)
            ELSE LET e == TransferCommandExecute(f.db, s, d, amt)
                 IN IF e.ok THEN [e EXCEPT !.db.rep[Owner[s]] = Min(1000, @ + 1)]
                    ELSE [e EXCEPT !.db.rep[Owner[s]] = Max(0, @ - 5)]

DepositBody(D, a, amt) ==
    LET e == DepositCommandExecute(D, a, amt)
    IN IF e.ok THEN [e EXCEPT !.db.rep[Owner[a]] = Min(1000, @ + 1)] ELSE e

DepositToSavings(D, a, amt) ==
    ApplyBonus(IF D.st[a] = "FROZEN" THEN TxResult(D, FALSE, None)
               ELSE LET f == CheckTransaction(D, None, a, amt)
                    IN IF ~f.ok THEN TxResult(f.db, FALSE, None)
                       ELSE DepositBody(f.db, a, amt),
               SavingsBonusPercentage)

TransactionServiceDeposit(D, a, amt) ==
    ApplyBonus(IF D.st[a] = "FROZEN" THEN TxResult(D, FALSE, None)
               ELSE LET f == CheckTransaction(D, None, a, amt)
                    IN IF ~f.ok THEN TxResult(f.db, FALSE, None)
                       ELSE IF TypeName[a] = "SavingsAccount"
                            THEN DepositToSavings(f.db, a, amt)
                            ELSE DepositBody(f.db, a, amt),
               DepositBonusPercentage)

TransactionServiceTransferTaxed(D, s, d, amt) ==
    ApplyTax(TransactionServiceTransfer(D, s, d, amt), TaxPercentage)

\* -------------------------------------------------------- routes.account_routes
WithdrawRoute(D, a, amt) ==
    IF D.st[a] = "FROZEN" \/ amt <= 0 THEN TxResult(D, FALSE, None)
    ELSE LET r == AccountServiceWithdraw(D, a, amt)
         IN IF ~r.ok THEN TxResult(r.db, FALSE, None)
            ELSE TxResult([r.db EXCEPT !.txs =
                              Append(@, NewTx("Withdrawal", a, None, amt, "COMPLETED"))],
                          TRUE, Len(r.db.txs) + 1)

\* ---------------------------------------------------- services.fraud_detection
\* mutant: a confirmed fraud freezes the account only when it is Active
ResolveAlertFreezesActiveOnly(D, k, isFraud) ==
    IF D.alerts[k].status # "OPEN" THEN Fail(D)
    ELSE LET E == [D EXCEPT !.alerts[k].status = IF isFraud THEN "RESOLVED" ELSE "FALSE_POSITIVE"]
         IN Ok(IF isFraud /\ D.st[D.alerts[k].account] = "ACTIVE"
               THEN AccountFreeze(E, D.alerts[k].account) ELSE E)

ResolveAlert(D, k, isFraud) ==
    IF D.alerts[k].status # "OPEN" THEN Fail(D)
    ELSE LET E == [D EXCEPT !.alerts[k].status = IF isFraud THEN "RESOLVED" ELSE "FALSE_POSITIVE"]
         IN Ok(IF isFraud THEN AccountFreeze(E, D.alerts[k].account) ELSE E)

\* ------------------------------------------------------------------ actions
Within(D) ==
    /\ Len(D.txs) <= MaxTx
    /\ Len(D.alerts) <= MaxAlerts
    /\ \A a \in Acct : D.bal[a] <= MaxBal
    /\ \A u \in User : D.rep[u] >= InitReputation[u] - RepDrift

\* a handler that leaves nothing uncommitted: the rows become D
Commit(D, op, ok, s, d, amt, t, pre) ==
    /\ Within(D)
    /\ balance' = D.bal
    /\ status' = D.st
    /\ rep' = D.rep
    /\ txs' = D.txs
    /\ alerts' = D.alerts
    /\ sess' = NoSess
    /\ last' = [op |-> op, ok |-> ok, src |-> s, dst |-> d, amt |-> amt, tx |-> t, pre |-> pre]
    /\ UNCHANGED <<loans, invs, now>>

\* AccountService.deposit
Deposit(a, amt) ==
    /\ sess = NoSess
    /\ LET R == AccountServiceDeposit(Db, a, amt)
       IN Commit(R.db, "deposit", R.ok, None, a, amt, None, NoPre)

\* AccountService.withdraw
ServiceWithdraw(a, amt) ==
    /\ sess = NoSess
    /\ LET R == AccountServiceWithdraw(Db, a, amt)
       IN Commit(R.db, "service_withdraw", R.ok, a, None, amt, None, NoPre)

\* the withdraw route: AccountService.withdraw, then the Withdrawal record
Withdraw(a, amt) ==
    /\ sess = NoSess
    /\ LET R == WithdrawRoute(Db, a, amt)
       IN Commit(R.db, "withdraw", R.ok, a, None, amt, R.tx, NoPre)

\* AccountService.transfer
Transfer(s, d, amt) ==
    /\ sess = NoSess
    /\ LET R == AccountServiceTransfer(Db, s, d, amt)
       IN Commit(R.db, "transfer", R.ok, s, d, amt, None, NoPre)

\* TransactionService.transfer with its tax post-step
TxTransfer(s, d, amt) ==
    /\ sess = NoSess
    /\ LET R == TransactionServiceTransferTaxed(Db, s, d, amt)
       IN Commit(R.db, "tx_transfer", R.ok, s, d, amt, R.tx, IF R.ok THEN balance ELSE NoPre)

\* TransactionService.deposit with its bonus post-step
TxDeposit(a, amt) ==
    /\ sess = NoSess
    /\ LET R == TransactionServiceDeposit(Db, a, amt)
       IN Commit(R.db, "tx_deposit", R.ok, None, a, amt, R.tx, IF R.ok THEN balance ELSE NoPre)

\* TransactionService.undo_transaction: the reversal is applied to the session's
\* objects and the method returns without a commit
UndoTransaction(t) ==
    /\ sess = NoSess
    /\ t \in 1..Len(txs)
    /\ LET r == Reverse(Db, t)
       IN /\ sess' = IF r.ok THEN Dirty(r.db) ELSE NoSess
          /\ last' = [op |-> "undo", ok |-> r.ok, src |-> txs[t].src, dst |-> txs[t].dst,
                      amt |-> txs[t].amount, tx |-> t,
                      pre |-> IF last.ok /\ last.tx = t THEN last.pre ELSE NoPre]
    /\ UNCHANGED <<balance, status, rep, txs, alerts, loans, invs, now>>

\* end of the request: the scoped session is removed, uncommitted changes are lost
Teardown ==
    /\ sess # NoSess
    /\ sess' = NoSess
    /\ UNCHANGED <<balance, status, rep, txs, alerts, loans, invs, now, last>>

ResolveFraudAlert(k, isFraud) ==
    /\ sess = NoSess
    /\ k \in 1..Len(alerts)
    /\ LET R == ResolveAlert(Db, k, isFraud)
       IN Commit(R.db, "resolve", R.ok, alerts[k].account, None, 0, k, <<isFraud>>)

FreezeAccount(a) ==
    /\ sess = NoSess
    /\ Commit(AccountFreeze(Db, a), "freeze", TRUE, a, None, 0, None, NoPre)

UnfreezeAccount(a) ==
    /\ sess = NoSess
    /\ Commit(AccountUnfreeze(Db, a), "unfreeze", TRUE, a, None, 0, None, NoPre)

Init ==
    /\ balance = InitBalance
    /\ status = [a \in Acct |-> "ACTIVE"]
    /\ rep = InitReputation
    /\ txs = <<>>
    /\ alerts = <<>>
    /\ loans = <<>>
    /\ invs = <<>>
    /\ now = 0
    /\ sess = NoSess
    /\ last = NoLast

\* the routed application: every handler that moves time records a transaction
Next ==
    \/ \E a \in Acct, amt \in Amounts : Withdraw(a, amt)
    \/ \E s \in Acct, d \in Acct, amt \in Amounts : TxTransfer(s, d, amt)
    \/ \E a \in Acct, amt \in DepositAmounts : TxDeposit(a, amt)
    \/ \E t \in 1..MaxTx : UndoTransaction(t)
    \/ Teardown
    \/ \E k \in 1..MaxAlerts, f \in BOOLEAN : ResolveFraudAlert(k, f)
    \/ \E a \in Acct : UnfreezeAccount(a)

\* the account ledger: the AccountService operations over the State pattern
\* next to the TransactionService operations over the Command pattern
NextLedger ==
    \/ \E a \in Acct, amt \in Amounts : Deposit(a, amt)
    \/ \E a \in Acct, amt \in Amounts : ServiceWithdraw(a, amt)
    \/ \E s \in Acct, d \in Acct, amt \in Amounts : Transfer(s, d, amt)
    \/ \E s \in Acct : \E d \in Acct \ {s}, amt \in Amounts : TxTransfer(s, d, amt)
    \/ \E a \in Acct : FreezeAccount(a)
    \/ \E a \in Acct : UnfreezeAccount(a)

Spec == Init /\ [][Next]_vars

SpecLedger == Init /\ [][NextLedger]_vars

\* --------------------------------------------------------------- the clock
\* Time is counted in days.  A record created on day c is looked at on day n
\* by a later call, so (n - c) whole days and a positive fraction of a day
\* have passed: "created + term <= utcnow()" is n - c >= term, and
\* "(due - utcnow()).days" is term - (n - c) - 1.
Age(r) == now - r.created

\* a day passes; the transactions of the day before leave the fraud check's
\* one-hour window
Tick ==
    /\ sess = NoSess
    /\ now < MaxNow
    /\ now' = now + 1
    /\ txs' = [i \in 1..Len(txs) |-> [txs[i] EXCEPT !.recent = FALSE]]
    /\ last' = [op |-> "tick", ok |-> TRUE, src |-> None, dst |-> None, amt |-> 0,
                tx |-> None, pre |-> NoPre]
    /\ UNCHANGED <<balance, status, rep, alerts, loans, invs, sess>>

\* -------------------------------------------------------- models.Investment
\* credits is a history field: how often the investment has been paid out to
\* its account
NewInvestment(a, amt, term) ==
    [account |-> a, amount |-> amt, rate |-> InterestRatePct[a], term |-> term,
     status |-> "ACTIVE", created |-> now, credits |-> 0]

\* the investment's interest_rate: account_type.interest_rate * 1.5, the
\* account type's rate being the double of the literal pct/100
InvestmentRate(pct) == DoubleMul(DoubleDiv(pct, 100), DoubleDiv(3, 2))

\* int(amount * (1 + interest_rate) * (1.0 + (term_days / 30) * 0.02)), in
\* doubles as the source computes it
FinalReturn(amount, pct, term_days) ==
    LET base_return == DoubleMul(DoubleOfInt(amount),
                                 DoubleAdd(DoubleOfInt(1), InvestmentRate(pct)))
        term_multiplier == DoubleAdd(DoubleOfInt(1),
                                     DoubleMul(DoubleDiv(term_days, 30), DoubleDiv(2, 100)))
    IN DoubleToInt(DoubleMul(base_return, term_multiplier))

\* the returns of the investments that are created here, computed once
ReturnAmounts == InvAmounts \cup {1875}
ReturnTerms == InvTerms \cup {4}
FinalReturns ==
    [amount \in ReturnAmounts, pct \in {InterestRatePct[a] : a \in Acct}, term_days \in ReturnTerms |->
        FinalReturn(amount, pct, term_days)]

CalculateReturn(v) == FinalReturns[v.amount, v.rate, v.term]

InvestmentWithdrawAnyStatus(v) ==
    IF Age(v) < v.term
    THEN [ok |-> TRUE, amount |-> v.amount, inv |-> [v EXCEPT !.status = "WITHDRAWN"]]
    ELSE [ok |-> TRUE, amount |-> CalculateReturn(v), inv |-> [v EXCEPT !.status = "MATURED"]]

InvestmentWithdraw(v) ==
    IF v.status # "ACTIVE" THEN [ok |-> FALSE, amount |-> 0, inv |-> v]
    ELSE IF Age(v) < v.term
    THEN [ok |-> TRUE, amount |-> v.amount, inv |-> [v EXCEPT !.status = "WITHDRAWN"]]
    ELSE [ok |-> TRUE, amount |-> CalculateReturn(v), inv |-> [v EXCEPT !.status = "MATURED"]]

\* BankingFacade.create_investment: the ledger commits the Pending record
\* first; when Account.withdraw then raises, the rollback leaves that record
FacadeCreateInvestment(D, a, amt, term) ==
    IF D.st[a] # "ACTIVE" \/ D.bal[a] < amt THEN [db |-> D, ok |-> FALSE, new |-> FALSE]
    ELSE LET P == [D EXCEPT !.txs = Append(@, NewTx("Investment", a, None, amt, "PENDING"))]
             t == Len(P.txs)
             w == AccountWithdraw(P, a, amt)
         IN IF w.ok
            THEN [db |-> [w.db EXCEPT !.txs[t].status = "COMPLETED"], ok |-> TRUE, new |-> TRUE]
            ELSE [db |-> P, ok |-> FALSE, new |-> FALSE]

\* InvestmentService.create_investment
CreateInvestment(a, amt, term) ==
    /\ sess = NoSess
    /\ Len(invs) < MaxInv
    /\ LET R == FacadeCreateInvestment(Db, a, amt, term)
       IN /\ Within(R.db)
          /\ balance' = R.db.bal
          /\ status' = R.db.st
          /\ txs' = R.db.txs
          /\ invs' = IF R.new THEN Append(invs, NewInvestment(a, amt, term)) ELSE invs
          /\ last' = [op |-> "create_investment", ok |-> R.ok, src |-> a, dst |-> None,
                      amt |-> amt, tx |-> IF R.new THEN Len(invs) + 1 ELSE None,
                      pre |-> NoPre]
    /\ UNCHANGED <<rep, alerts, loans, now, sess>>

\* InvestmentService.withdraw_investment
WithdrawInvestment(i) ==
    /\ sess = NoSess
    /\ i \in 1..Len(invs)
    /\ LET w == InvestmentWithdraw(invs[i])
           a == invs[i].account
           c == IF w.ok THEN AccountDeposit(Db, a, w.amount) ELSE Fail(Db)
       IN /\ Within(c.db)
          /\ balance' = c.db.bal
          /\ invs' = IF c.ok THEN [invs EXCEPT ![i] = [w.inv EXCEPT !.credits = @ + 1]]
                     ELSE invs
          /\ last' = [op |-> "withdraw_investment", ok |-> c.ok, src |-> None, dst |-> a,
                      amt |-> IF c.ok THEN w.amount ELSE 0, tx |-> i, pre |-> NoPre]
    /\ UNCHANGED <<status, rep, txs, alerts, loans, now, sess>>

\* InvestmentService.check_matured_investments, the periodic maturity sweep
CheckMaturedInvestments ==
    /\ sess = NoSess
    /\ invs' = [i \in 1..Len(invs) |->
                  IF invs[i].status = "ACTIVE" /\ Age(invs[i]) >= invs[i].term
                  THEN [invs[i] EXCEPT !.status = "MATURED"] ELSE invs[i]]
    /\ last' = [op |-> "check_matured_investments", ok |-> TRUE, src |-> None, dst |-> None,
                amt |-> 0, tx |-> None, pre |-> NoPre]
    /\ UNCHANGED <<balance, status, rep, txs, alerts, loans, now, sess>>

NextInv ==
    \/ \E a \in Acct, amt \in InvAmounts, term \in InvTerms : CreateInvestment(a, amt, term)
    \/ \E i \in 1..MaxInv : WithdrawInvestment(i)
    \/ CheckMaturedInvestments
    \/ Tick

SpecInv == Init /\ [][NextInv]_vars

\* --------------------------------------------------------------- models.Loan
\* rates are in millionths; remaining is in seconds; adjusted is a history
\* field, the number of market adjustments the loan has seen
\* floor(a * r / 1000000) without a product above 2^31
Millionths(a, r) ==
    LET x == (a \div 1000) * r
    IN (x \div 1000) + (((x % 1000) * 1000 + (a % 1000) * r) \div 1000000)

\* int(amount * (1 + interest_rate))
CalculateTotalRepayment(L) == L.amount + Millionths(L.amount, L.rate)

LoanMakePaymentUnclamped(L, p) ==
    IF L.status # "ACTIVE" \/ p <= 0 THEN [ok |-> FALSE, loan |-> L]
    ELSE LET r == L.remaining - p
         IN [ok |-> TRUE,
             loan |-> [L EXCEPT !.remaining = r, !.status = IF r = 0 THEN "PAID" ELSE @]]

\* mutant: a payment that leaves nothing does not close the loan
LoanMakePaymentStaysActive(L, p) ==
    IF L.status # "ACTIVE" \/ p <= 0 THEN [ok |-> FALSE, loan |-> L]
    ELSE [ok |-> TRUE, loan |-> [L EXCEPT !.remaining = @ - Min(p, @)]]

LoanMakePayment(L, p) ==
    IF L.status # "ACTIVE" \/ p <= 0 THEN [ok |-> FALSE, loan |-> L]
    ELSE LET r == L.remaining - Min(p, L.remaining)
         IN [ok |-> TRUE,
             loan |-> [L EXCEPT !.remaining = r, !.status = IF r = 0 THEN "PAID" ELSE @]]

\* ------------------------------------------- patterns.behavioral.loan_strategy
FixedCalculateRepaymentAmount(L) == CalculateTotalRepayment(L)

\* int(amount * (1 + max(interest_rate + market_rate_adjustment, 0.01)))
DynamicCalculateRepaymentAmount(L, adj) ==
    L.amount + (L.amount * Max(L.rate + adj, MinEffectiveRate)) \div 1000000

EarlyCalculateRepaymentAmount(L) == CalculateTotalRepayment(L)

CalculateRepaymentAmount(L) ==
    CASE L.strategy = "FIXED" -> FixedCalculateRepaymentAmount(L)
      [] L.strategy = "DYNAMIC" -> DynamicCalculateRepaymentAmount(L, 0)
      [] L.strategy = "EARLY" -> EarlyCalculateRepaymentAmount(L)

\* mutant: four equal instalments, the rounding remainder dropped
FixedCalculatePaymentScheduleEqual(L) ==
    LET total_repayment == FixedCalculateRepaymentAmount(L)
        payment_interval == Max(L.term \div 4, 1)
        payment_amount == total_repayment \div 4
    IN [i \in 1..4 |->
           IF i < 4 THEN [date |-> L.created + payment_interval * i, amount |-> payment_amount]
           ELSE [date |-> L.created + L.term, amount |-> payment_amount]]

\* FixedRateStrategy.calculate_payment_schedule; dates are in days
FixedCalculatePaymentSchedule(L) ==
    LET total_repayment == FixedCalculateRepaymentAmount(L)
        payment_interval == Max(L.term \div 4, 1)
        payment_amount == total_repayment \div 4
        final_payment == total_repayment - payment_amount * 3
    IN [i \in 1..4 |->
           IF i < 4 THEN [date |-> L.created + payment_interval * i, amount |-> payment_amount]
           ELSE [date |-> L.created + L.term, amount |-> final_payment]]

FixedApplyPayment(L, p) == LoanMakePayment(L, p)

\* before due_date - term_days // 2 the payment counts int(payment * 1.05)
DynamicApplyPayment(L, p) ==
    LoanMakePayment(L, IF Age(L) < L.term - L.term \div 2 THEN (p * 105) \div 100 ELSE p)

\* a payment of at least the remaining amount made while more than a quarter
\* of the term is left first cuts the remaining amount to 85, 90 or 95 percent;
\* a payment that then raises leaves the loan as it was
DaysRemaining(L) == L.term - Age(L) - 1

\* the percentage of the remaining amount that is left to pay
EarlyDiscountPercent(L, p) ==
    LET days_remaining == DaysRemaining(L)
    IN IF p >= L.remaining /\ 4 * days_remaining > L.term
       THEN IF 4 * days_remaining >= 3 * L.term THEN 85
            ELSE IF 2 * days_remaining >= L.term THEN 90
            ELSE 95
       ELSE 100

EarlyApplyPayment(L, p) ==
    LET pct == EarlyDiscountPercent(L, p)
        R == LoanMakePayment([L EXCEPT !.remaining = (@ * pct) \div 100], p)
    IN IF R.ok THEN R ELSE [ok |-> FALSE, loan |-> L]

ApplyPayment(L, p) ==
    CASE L.strategy = "FIXED" -> FixedApplyPayment(L, p)
      [] L.strategy = "DYNAMIC" -> DynamicApplyPayment(L, p)
      [] L.strategy = "EARLY" -> EarlyApplyPayment(L, p)

\* ----------------------------------------------------- services.loan_service
\* max(0.01, min(0.25, 0.05 + (100 - reputation) / 1000
\*                      + term_days / 365 * 0.02 + amount / 86400 / 30 * 0.01))
InterestRate(a, amt, term) ==
    Max(10000, Min(250000, 50000 + (1000 - rep[Owner[a]]) * 100
                           + (term * 20000) \div 365 + (amt * 10000) \div 2592000))

ActiveLoans(a) ==
    Cardinality({i \in 1..Len(loans) : loans[i].account = a /\ loans[i].status = "ACTIVE"})

NewLoan(a, amt, term, strat) ==
    LET L == [account |-> a, amount |-> amt, rate |-> InterestRate(a, amt, term),
              term |-> term, remaining |-> 0, status |-> "ACTIVE", strategy |-> strat,
              created |-> now, adjusted |-> 0]
    IN [L EXCEPT !.remaining = CalculateRepaymentAmount(L)]

\* LoanStrategyFactory.create_strategy raises ValueError for any other type
KnownStrategy(strat) == strat \in Strategies

\* what leaves a call that did not return a result
Raised(e) == <<e>>

\* LoanService.create_loan: the two eligibility tests return a failure; the
\* strategy is created after them and outside the try block, so its ValueError
\* leaves the call (nothing has been added to the session by then)
CreateLoan(a, amt, term, strat) ==
    /\ sess = NoSess
    /\ Len(loans) < MaxLoans
    /\ LET eligible == status[a] = "ACTIVE" /\ ActiveLoans(a) < MaxActiveLoans
           ok == eligible /\ KnownStrategy(strat)
       IN /\ balance' = IF ok THEN [balance EXCEPT ![a] = @ + amt] ELSE balance
          /\ balance'[a] <= MaxBal
          /\ loans' = IF ok THEN Append(loans, NewLoan(a, amt, term, strat)) ELSE loans
          /\ last' = [op |-> "create_loan", ok |-> ok, src |-> None, dst |-> a, amt |-> amt,
                      tx |-> IF ok THEN Len(loans) + 1 ELSE None,
                      pre |-> IF eligible /\ ~KnownStrategy(strat) THEN Raised("ValueError")
                              ELSE NoPre]
    /\ UNCHANGED <<status, rep, txs, alerts, invs, now, sess>>

\* LoanService.make_payment: the account is debited the requested amount
MakePayment(i, p) ==
    /\ sess = NoSess
    /\ i \in 1..Len(loans)
    /\ LET a == loans[i].account
           R == IF balance[a] < p THEN [ok |-> FALSE, loan |-> loans[i]]
                ELSE ApplyPayment(loans[i], p)
       IN /\ loans' = [loans EXCEPT ![i] = R.loan]
          /\ balance' = IF R.ok THEN [balance EXCEPT ![a] = @ - p] ELSE balance
          /\ last' = [op |-> "make_payment", ok |-> R.ok, src |-> a, dst |-> None, amt |-> p,
                      tx |-> i, pre |-> <<loans[i].remaining>>]
    /\ UNCHANGED <<status, rep, txs, alerts, invs, now, sess>>

\* LoanService.check_overdue_loans, the periodic overdue sweep
CheckOverdueLoans ==
    /\ sess = NoSess
    /\ loans' = [i \in 1..Len(loans) |->
                   IF loans[i].status = "ACTIVE" /\ Age(loans[i]) >= loans[i].term
                   THEN [loans[i] EXCEPT !.status = "DEFAULTED"] ELSE loans[i]]
    /\ last' = [op |-> "check_overdue_loans", ok |-> TRUE, src |-> None, dst |-> None,
                amt |-> 0, tx |-> None, pre |-> NoPre]
    /\ UNCHANGED <<balance, status, rep, txs, alerts, invs, now, sess>>

\* the remaining amount moves to the recalculated amount, by at most 5 percent
\* of itself; the capped value remaining * 1.05 or remaining * 0.95 is rounded
\* to the nearest integer when the INTEGER column is written
AdjustRemaining(L, adj) ==
    LET new_remaining == DynamicCalculateRepaymentAmount(L, adj)
        adjustment == new_remaining - L.remaining
        size == IF adjustment < 0 THEN -adjustment ELSE adjustment
    IN IF 20 * size > L.remaining
       THEN IF adjustment > 0 THEN (L.remaining * 105 + 50) \div 100
            ELSE (L.remaining * 95 + 50) \div 100
       ELSE new_remaining

\* LoanService.adjust_market_rates with market_adjustment = adj millionths
Adjustable(L) ==
    L.strategy = "DYNAMIC" /\ L.status = "ACTIVE" /\ Age(L) <= AdjustWindowDays

AdjustMarketRates(adj) ==
    /\ sess = NoSess
    /\ \A i \in 1..Len(loans) : Adjustable(loans[i]) => loans[i].adjusted < MaxAdjust
    /\ loans' = [i \in 1..Len(loans) |->
                   IF Adjustable(loans[i])
                   THEN [loans[i] EXCEPT !.remaining = AdjustRemaining(loans[i], adj),
                                         !.adjusted = @ + 1]
                   ELSE loans[i]]
    /\ last' = [op |-> "adjust_market_rates", ok |-> TRUE, src |-> None, dst |-> None,
                amt |-> adj, tx |-> None, pre |-> NoPre]
    /\ UNCHANGED <<balance, status, rep, txs, alerts, invs, now, sess>>

NextLoan ==
    \/ \E a \in Acct, amt \in LoanAmounts, term \in LoanTerms, strat \in Strategies :
          CreateLoan(a, amt, term, strat)
    \/ \E i \in 1..MaxLoans, p \in Payments : MakePayment(i, p)
    \/ CheckOverdueLoans
    \/ \E adj \in MarketAdjustments : AdjustMarketRates(adj)
    \/ Tick

SpecLoan == Init /\ [][NextLoan]_vars

\* ------------------------------------- services.fraud_detection, step by step
\* check_transaction commits four times: the alert, the Failed record, the
\* link between them, and the notification.  The rows it reads are drawn here
\* from small sets; last.pre keeps them with the score computed from them.
FraudAmounts == {5000, 10000, 15000}
FraudBalances == {10000, 20000, 30000}
FraudRecent == {2, 3}
FraudReputations == {850, 900}

\* lines 30-102: the score, and for an unsafe check with a source account the
\* commit of the Open alert, which has no transaction yet
CheckTransactionCall(amt, hasS, sBal, sRecent, sRep, hasD, dRecent, dRep) ==
    /\ sess = NoSess
    /\ last.op \in {"init", "check_transaction", "notify_suspicious_transaction"}
    /\ last.op = "check_transaction" => (last.ok \/ last.src = None)
    /\ Len(alerts) < MaxAlerts
    /\ Len(txs) < MaxTx
    /\ LET score == RiskScoreOf(amt, hasS, sBal, sRecent, sRep, hasD, dRecent, dRep)
           s == IF hasS THEN 1 ELSE None
           d == IF hasD THEN 2 ELSE None
       IN /\ alerts' = IF IsSafe(score) \/ ~hasS THEN alerts
                       ELSE Append(alerts, [account |-> s, tx |-> None, status |-> "OPEN"])
          /\ last' = [op |-> "check_transaction", ok |-> IsSafe(score), src |-> s, dst |-> d,
                      amt |-> amt, tx |-> None,
                      pre |-> [hasS |-> hasS, sBal |-> sBal, sRecent |-> sRecent, sRep |-> sRep,
                               hasD |-> hasD, dRecent |-> dRecent, dRep |-> dRep,
                               score |-> score]]
    /\ UNCHANGED <<balance, status, rep, txs, loans, invs, now, sess>>

\* lines 104-117: the commit of the Failed record
CheckTransactionRecord ==
    /\ last.op = "check_transaction" /\ ~last.ok /\ last.src # None
    /\ txs' = Append(txs, NewTx("Transfer", last.src, last.dst, last.amt, "FAILED"))
    /\ last' = [last EXCEPT !.op = "check_transaction_record", !.tx = Len(txs) + 1]
    /\ UNCHANGED <<balance, status, rep, alerts, loans, invs, now, sess>>

\* lines 119-121: the commit of the alert's transaction_id
CheckTransactionLink ==
    /\ last.op = "check_transaction_record"
    /\ alerts' = [alerts EXCEPT ![Len(alerts)].tx = last.tx]
    /\ last' = [last EXCEPT !.op = "check_transaction_link"]
    /\ UNCHANGED <<balance, status, rep, txs, loans, invs, now, sess>>

\* NotificationObserver.notify_suspicious_transaction: the notification is
\* committed, or the exception is swallowed and nothing else changes; last.ok
\* tells which
NotifySuspiciousTransaction(sent) ==
    /\ last.op = "check_transaction_link"
    /\ last' = [last EXCEPT !.op = "notify_suspicious_transaction", !.ok = sent]
    /\ UNCHANGED <<balance, status, rep, txs, alerts, loans, invs, now, sess>>

NextFraud ==
    \/ \E amt \in FraudAmounts, hasS \in BOOLEAN, sBal \in FraudBalances,
          sRecent \in FraudRecent, sRep \in FraudReputations :
          \E hasD \in BOOLEAN, dRecent \in FraudRecent, dRep \in FraudReputations :
             CheckTransactionCall(amt, hasS, sBal, sRecent, sRep, hasD, dRecent, dRep)
    \/ CheckTransactionRecord
    \/ CheckTransactionLink
    \/ \E sent \in BOOLEAN : NotifySuspiciousTransaction(sent)

SpecFraud == Init /\ [][NextFraud]_vars

\* --------------------------- resolve_fraud_alert, two requests side by side
\* resolve_fraud_alert takes no lock: a request loads the alert and tests its
\* status (lines 165-171), and writes and commits later (lines 173-199).  sess
\* holds what a request between the two has loaded; other requests run
\* meanwhile.
Resolving == sess # NoSess /\ ~sess.dirty

ResolveRead(k, isFraud) ==
    /\ sess = NoSess
    /\ k \in 1..Len(alerts)
    /\ alerts[k].status = "OPEN"
    /\ sess' = [dirty |-> FALSE, alert |-> k, isFraud |-> isFraud]
    /\ last' = [op |-> "resolve_read", ok |-> TRUE, src |-> alerts[k].account, dst |-> None,
                amt |-> 0, tx |-> k, pre |-> <<isFraud>>]
    /\ UNCHANGED <<balance, status, rep, txs, alerts, loans, invs, now>>

\* another request resolves an alert from start to end meanwhile
ResolveMeanwhile(k, isFraud) ==
    /\ Resolving
    /\ k \in 1..Len(alerts)
    /\ LET R == ResolveAlert(Db, k, isFraud)
       IN /\ status' = R.db.st
          /\ alerts' = R.db.alerts
          /\ last' = [op |-> "resolve", ok |-> R.ok, src |-> alerts[k].account, dst |-> None,
                      amt |-> 0, tx |-> k, pre |-> <<isFraud>>]
    /\ UNCHANGED <<balance, rep, txs, loans, invs, now, sess>>

\* the first request writes the attributes it has set on its objects
ResolveWrite ==
    /\ Resolving
    /\ LET k == sess.alert
           E == [Db EXCEPT !.alerts[k].status =
                               IF sess.isFraud THEN "RESOLVED" ELSE "FALSE_POSITIVE"]
           F == IF sess.isFraud THEN AccountFreeze(E, alerts[k].account) ELSE E
       IN /\ status' = F.st
          /\ alerts' = F.alerts
          /\ last' = [op |-> "resolve", ok |-> TRUE, src |-> alerts[k].account, dst |-> None,
                      amt |-> 0, tx |-> k, pre |-> <<sess.isFraud>>]
    /\ sess' = NoSess
    /\ UNCHANGED <<balance, rep, txs, loans, invs, now>>

NextResolve ==
    \/ \E a \in Acct, amt \in Amounts : Withdraw(a, amt)
    \/ \E s \in Acct, d \in Acct, amt \in Amounts : TxTransfer(s, d, amt)
    \/ \E k \in 1..MaxAlerts, f \in BOOLEAN : ResolveFraudAlert(k, f)
    \/ \E k \in 1..MaxAlerts, f \in BOOLEAN : ResolveRead(k, f)
    \/ \E k \in 1..MaxAlerts, f \in BOOLEAN : ResolveMeanwhile(k, f)
    \/ ResolveWrite
    \/ \E a \in Acct : UnfreezeAccount(a)

SpecResolve == Init /\ [][NextResolve]_vars

\* ------------------------------------------------ the services side by side
\* transfers, investments and loans of the same accounts: account 1 invests,
\* account 2 borrows
NextBank ==
    \/ \E s \in Acct : \E d \in Acct \ {s}, amt \in Amounts : TxTransfer(s, d, amt)
    \/ \E k \in 1..MaxAlerts : ResolveFraudAlert(k, TRUE)
    \/ \E amt \in InvAmounts : CreateInvestment(1, amt, 1)
    \/ \E i \in 1..MaxInv : WithdrawInvestment(i)
    \/ \E strat \in Strategies : CreateLoan(2, 3600, 7, strat)
    \/ \E i \in 1..MaxLoans, p \in Payments : MakePayment(i, p)

SpecBank == Init /\ [][NextBank]_vars

\* ---------------------------------- create_loan, several requests side by side
\* create_loan takes no lock: a request tests the account's status and counts
\* its Active loans (lines 322-336), and adds the loan, credits the account and
\* commits later (lines 338-378).  sess.flight holds the applications that have
\* passed the tests and have not committed yet.
MaxRaceLoans == 5
MaxFlight == 2

Flight == IF sess # NoSess /\ ~sess.dirty THEN sess.flight ELSE <<>>

CreateLoanRead(a, amt, term, strat) ==
    /\ ~sess.dirty
    /\ Len(Flight) < MaxFlight
    /\ Len(loans) + Len(Flight) < MaxRaceLoans
    /\ LET ok == status[a] = "ACTIVE" /\ ActiveLoans(a) < MaxActiveLoans
           app == [account |-> a, amount |-> amt, term |-> term, strategy |-> strat]
       IN /\ sess' = IF ok THEN [dirty |-> FALSE, flight |-> Append(Flight, app)] ELSE sess
          /\ last' = [op |-> IF ok THEN "create_loan_read" ELSE "create_loan", ok |-> ok,
                      src |-> None, dst |-> a, amt |-> amt, tx |-> None, pre |-> NoPre]
    /\ UNCHANGED <<balance, status, rep, txs, alerts, loans, invs, now>>

CreateLoanWrite(j) ==
    /\ j \in 1..Len(Flight)
    /\ LET app == Flight[j]
           rest == SubSeq(Flight, 1, j - 1) \o SubSeq(Flight, j + 1, Len(Flight))
       IN /\ loans' = Append(loans, NewLoan(app.account, app.amount, app.term, app.strategy))
          /\ balance' = [balance EXCEPT ![app.account] = @ + app.amount]
          /\ sess' = IF rest = <<>> THEN NoSess ELSE [dirty |-> FALSE, flight |-> rest]
          /\ last' = [op |-> "create_loan", ok |-> TRUE, src |-> None, dst |-> app.account,
                      amt |-> app.amount, tx |-> Len(loans) + 1, pre |-> NoPre]
    /\ UNCHANGED <<status, rep, txs, alerts, invs, now>>

NextLoanRace ==
    \/ \E a \in Acct, amt \in LoanAmounts, term \in LoanTerms :
          CreateLoanRead(a, amt, term, "FIXED")
    \/ \E j \in 1..MaxFlight : CreateLoanWrite(j)
    \/ \E a \in Acct : FreezeAccount(a)
    \/ \E a \in Acct : UnfreezeAccount(a)

SpecLoanRace == Init /\ [][NextLoanRace]_vars

\* -------------------------- check_overdue_loans next to a payment request
\* check_overdue_loans takes no lock: it loads the Active loans that are past
\* their due date (lines 492-495) and writes 'DEFAULTED' to each of them later
\* (lines 497-506).  sess.overdue holds the loans the sweep has loaded; a
\* payment request runs from start to end meanwhile.
Sweeping == sess # NoSess /\ ~sess.dirty

CheckOverdueRead ==
    /\ sess = NoSess
    /\ LET overdue == {i \in 1..Len(loans) :
                          loans[i].status = "ACTIVE" /\ Age(loans[i]) >= loans[i].term}
       IN /\ overdue # {}
          /\ sess' = [dirty |-> FALSE, overdue |-> overdue]
    /\ last' = [op |-> "check_overdue_read", ok |-> TRUE, src |-> None, dst |-> None,
                amt |-> 0, tx |-> None, pre |-> NoPre]
    /\ UNCHANGED <<balance, status, rep, txs, alerts, loans, invs, now>>

MakePaymentMeanwhile(i, p) ==
    /\ Sweeping
    /\ i \in 1..Len(loans)
    /\ LET a == loans[i].account
           R == IF balance[a] < p THEN [ok |-> FALSE, loan |-> loans[i]]
                ELSE ApplyPayment(loans[i], p)
       IN /\ loans' = [loans EXCEPT ![i] = R.loan]
          /\ balance' = IF R.ok THEN [balance EXCEPT ![a] = @ - p] ELSE balance
          /\ last' = [op |-> "make_payment", ok |-> R.ok, src |-> a, dst |-> None, amt |-> p,
                      tx |-> i, pre |-> <<loans[i].remaining>>]
    /\ UNCHANGED <<status, rep, txs, alerts, invs, now, sess>>

\* the sweep writes the one attribute it has set, the status
CheckOverdueWrite ==
    /\ Sweeping
    /\ loans' = [i \in 1..Len(loans) |->
                   IF i \in sess.overdue THEN [loans[i] EXCEPT !.status = "DEFAULTED"]
                   ELSE loans[i]]
    /\ sess' = NoSess
    /\ last' = [op |-> "check_overdue_loans", ok |-> TRUE, src |-> None, dst |-> None,
                amt |-> 0, tx |-> None, pre |-> NoPre]
    /\ UNCHANGED <<balance, status, rep, txs, alerts, invs, now>>

NextLoanSweep ==
    \/ \E a \in Acct, amt \in LoanAmounts, term \in LoanTerms, strat \in Strategies :
          CreateLoan(a, amt, term, strat)
    \/ \E i \in 1..MaxLoans, p \in Payments : MakePayment(i, p)
    \/ CheckOverdueLoans
    \/ CheckOverdueRead
    \/ \E i \in 1..MaxLoans, p \in Payments : MakePaymentMeanwhile(i, p)
    \/ CheckOverdueWrite
    \/ Tick

SpecLoanSweep == Init /\ [][NextLoanSweep]_vars

\* ------------------------------------------------- the two periodic sweeps
\* loans and investments of account 1 with both sweeps, the overdue sweep also
\* next to a payment request
NextSweeps ==
    \/ CreateLoan(1, 3600, 7, "FIXED")
    \/ \E i \in 1..MaxLoans : MakePayment(i, 7200)
    \/ \E term \in InvTerms : CreateInvestment(1, 1800, term)
    \/ \E i \in 1..MaxInv : WithdrawInvestment(i)
    \/ CheckOverdueLoans
    \/ CheckMaturedInvestments
    \/ CheckOverdueRead
    \/ \E i \in 1..MaxLoans : MakePaymentMeanwhile(i, 7200)
    \/ CheckOverdueWrite
    \/ Tick

SpecSweeps == Init /\ [][NextSweeps]_vars

\* ------------------------------------------------ LoanService.get_payment_schedule
\* the schedule of a Fixed loan, for principals, rates (in millionths) and terms
\* the application form admits
ScheduleAmounts == {3600, 3601, 3602, 3603, 99999, 100000}
ScheduleRates == {10000, 50000, 70000, 250000}
ScheduleTerms == {7, 8, 9, 10, 30, 100, 365}

GetPaymentSchedule(amt, rate, term) ==
    /\ sess = NoSess
    /\ LET L == [account |-> 1, amount |-> amt, rate |-> rate, term |-> term,
                 remaining |-> 0, status |-> "ACTIVE", strategy |-> "FIXED",
                 created |-> now, adjusted |-> 0]
       IN last' = [op |-> "get_payment_schedule", ok |-> TRUE, src |-> None, dst |-> None,
                   amt |-> amt, tx |-> None,
                   pre |-> [rate |-> rate, term |-> term, created |-> now,
                            schedule |-> FixedCalculatePaymentSchedule(L)]]
    /\ UNCHANGED <<balance, status, rep, txs, alerts, loans, invs, now, sess>>

NextSchedule ==
    \/ \E amt \in ScheduleAmounts, rate \in ScheduleRates, term \in ScheduleTerms :
          GetPaymentSchedule(amt, rate, term)
    \/ Tick

SpecSchedule == Init /\ [][NextSchedule]_vars

\* ----------------------------------- EarlyRepaymentStrategy.apply_payment
\* a payment on an Active Early loan, for terms the form admits, every whole
\* number of days since the loan was created, and payments below, at and above
\* the remaining amount
EarlyTerms == {7, 8, 12}
EarlyRemaining == {1800, 3780}
EarlyPayments == {1800, 3780, 7200}

EarlyPayment(term, age, rem, p) ==
    /\ sess = NoSess
    /\ LET L == [account |-> 1, amount |-> 3600, rate |-> 50000, term |-> term,
                 remaining |-> rem, status |-> "ACTIVE", strategy |-> "EARLY",
                 created |-> now - age, adjusted |-> 0]
           R == EarlyApplyPayment(L, p)
       IN last' = [op |-> "early_apply_payment", ok |-> R.ok, src |-> None, dst |-> None,
                   amt |-> p, tx |-> None,
                   pre |-> [term |-> term, days_remaining |-> DaysRemaining(L),
                            remaining |-> rem,
                            discounted |-> (rem * EarlyDiscountPercent(L, p)) \div 100,
                            left |-> R.loan.remaining, status |-> R.loan.status]]
    /\ UNCHANGED <<balance, status, rep, txs, alerts, loans, invs, now, sess>>

NextEarly ==
    \E term \in EarlyTerms : \E age \in 0..term, rem \in EarlyRemaining, p \in EarlyPayments :
        EarlyPayment(term, age, rem, p)

SpecEarly == Init /\ [][NextEarly]_vars

\* --------------------------------------- InvestmentService.withdraw_investment
\* investments of half an hour and of 31 minutes 15 seconds, for one day and for
\* four days, withdrawn before and after their maturity date
NextReturn ==
    \/ \E a \in Acct, amt \in {1800, 1875}, term \in {1, 4} : CreateInvestment(a, amt, term)
    \/ \E i \in 1..MaxInv : WithdrawInvestment(i)
    \/ Tick

SpecReturn == Init /\ [][NextReturn]_vars

\* ------------------------------------------------ the tax and bonus post-steps
\* routed transfers and deposits of 36 seconds (0.01 hours, the smallest amount
\* with a whole number of seconds that the routes' two-decimal hours give) and
\* of half an hour
PostStepAmounts == {36, 1800}

NextPostSteps ==
    \/ \E s \in Acct, d \in Acct, amt \in PostStepAmounts : TxTransfer(s, d, amt)
    \/ \E a \in Acct, amt \in PostStepAmounts : TxDeposit(a, amt)
    \/ \E a \in Acct, amt \in PostStepAmounts : Withdraw(a, amt)

SpecPostSteps == Init /\ [][NextPostSteps]_vars

\* ------------------------------------------------- declined loan operations
\* loan requests with the three strategy types and one that does not exist, on
\* accounts that are Active or Frozen, and payments that the balance covers or
\* does not
StrategyTypes == Strategies \cup {"BALLOON"}

NextDecline ==
    \/ \E a \in Acct, strat \in StrategyTypes : CreateLoan(a, 3600, 7, strat)
    \/ \E i \in 1..MaxLoans, p \in Payments : MakePayment(i, p)
    \/ \E a \in Acct : FreezeAccount(a)
    \/ \E a \in Acct : UnfreezeAccount(a)
    \/ Tick

SpecDecline == Init /\ [][NextDecline]_vars

\* ------------------------------------------------------ amounts of zero
\* every operation that takes an amount, called with zero seconds and with half
\* an hour
ZeroAmounts == {0, 1800}

NextZero ==
    \/ \E amt \in ZeroAmounts : TxDeposit(2, amt)
    \/ \E amt \in ZeroAmounts : Withdraw(1, amt)
    \/ \E amt \in ZeroAmounts : TxTransfer(1, 2, amt)
    \/ \E amt \in ZeroAmounts : CreateLoan(1, amt, 7, "FIXED")
    \/ \E i \in 1..MaxLoans, p \in ZeroAmounts : MakePayment(i, p)
    \/ \E amt \in ZeroAmounts : CreateInvestment(1, amt, 1)

SpecZero == Init /\ [][NextZero]_vars

\* --------------------------- AccountService.withdraw next to another request
\* No operation takes a lock on the account row.  AccountService.withdraw loads
\* the account (line 88), and ActiveState.withdraw tests, lowers and commits the
\* balance of that loaded object later (state.py lines 100-110): the UPDATE
\* carries the value computed from what was loaded.  sess holds the loaded
\* row; one other request on the same account runs from start to end
\* meanwhile and is noted in sess.meanwhile.
MaxMeanwhile == 1

Withdrawing == sess # NoSess /\ ~sess.dirty

\* the rows as the request in flight has loaded them
Loaded == [Db EXCEPT !.bal[sess.account] = sess.bal, !.st[sess.account] = sess.st]

WithdrawRead(a, amt) ==
    /\ sess = NoSess
    /\ status[a] # "FROZEN"
    /\ sess' = [dirty |-> FALSE, account |-> a, amount |-> amt, bal |-> balance[a],
                st |-> status[a], meanwhile |-> <<>>]
    /\ last' = [op |-> "service_withdraw_read", ok |-> TRUE, src |-> a, dst |-> None,
                amt |-> amt, tx |-> None, pre |-> NoPre]
    /\ UNCHANGED <<balance, status, rep, txs, alerts, loans, invs, now>>

DepositMeanwhile(amt) ==
    /\ Withdrawing
    /\ Len(sess.meanwhile) < MaxMeanwhile
    /\ LET a == sess.account
           R == AccountServiceDeposit(Db, a, amt)
       IN /\ R.ok
          /\ Within(R.db)
          /\ balance' = R.db.bal
          /\ status' = R.db.st
          /\ sess' = [sess EXCEPT !.meanwhile = Append(@, [op |-> "deposit", amount |-> amt])]
          /\ last' = [op |-> "deposit", ok |-> TRUE, src |-> None, dst |-> a, amt |-> amt,
                      tx |-> None, pre |-> NoPre]
    /\ UNCHANGED <<rep, txs, alerts, loans, invs, now>>

WithdrawMeanwhile(amt) ==
    /\ Withdrawing
    /\ Len(sess.meanwhile) < MaxMeanwhile
    /\ LET a == sess.account
           R == AccountServiceWithdraw(Db, a, amt)
       IN /\ R.ok
          /\ Within(R.db)
          /\ balance' = R.db.bal
          /\ status' = R.db.st
          /\ sess' = [sess EXCEPT !.meanwhile = Append(@, [op |-> "withdraw", amount |-> amt])]
          /\ last' = [op |-> "service_withdraw", ok |-> TRUE, src |-> a, dst |-> None,
                      amt |-> amt, tx |-> None, pre |-> NoPre]
    /\ UNCHANGED <<rep, txs, alerts, loans, invs, now>>

\* the request in flight withdraws from the row it has loaded and commits the
\* attributes it has set
WithdrawWrite ==
    /\ Withdrawing
    /\ LET a == sess.account
           R == AccountServiceWithdraw(Loaded, a, sess.amount)
       IN /\ balance' = IF R.ok THEN [balance EXCEPT ![a] = R.db.bal[a]] ELSE balance
          /\ status' = IF R.ok /\ R.db.st[a] # sess.st
                       THEN [status EXCEPT ![a] = R.db.st[a]] ELSE status
          /\ last' = [op |-> "service_withdraw", ok |-> R.ok, src |-> a, dst |-> None,
                      amt |-> sess.amount, tx |-> None,
                      pre |-> [bal |-> sess.bal, st |-> sess.st, meanwhile |-> sess.meanwhile]]
    /\ sess' = NoSess
    /\ UNCHANGED <<rep, txs, alerts, loans, invs, now>>

NextAccountRace ==
    \/ \E a \in Acct, amt \in {900, 1800} : Deposit(a, amt)
    \/ \E a \in Acct, amt \in {900, 1800} : ServiceWithdraw(a, amt)
    \/ \E a \in Acct, amt \in {900, 1800} : WithdrawRead(a, amt)
    \/ \E amt \in {900, 1800} : DepositMeanwhile(amt)
    \/ \E amt \in {900, 1800} : WithdrawMeanwhile(amt)
    \/ WithdrawWrite

SpecAccountRace == Init /\ [][NextAccountRace]_vars

\* ------------------------ the reputation step of transfer, two requests
\* transfer() reads and writes the owner's reputation_score without a lock: the
\* user row is loaded when check_transaction looks at the score, and after a
\* failed command the new score max(0, score - 0.5) is computed from the loaded
\* value and committed (lines 97-101).  sess holds the loaded score; a deposit
\* of the same owner runs from start to end meanwhile.
FailedTransferRead(s, d, amt) ==
    /\ sess = NoSess
    /\ status[s] # "FROZEN"
    /\ CheckTransaction(Db, s, d, amt).ok
    /\ CheckTransaction(Db, s, d, amt).db = Db
    /\ ~TransferCommandExecute(Db, s, d, amt).ok
    /\ sess' = [dirty |-> FALSE, owner |-> Owner[s], rep |-> rep[Owner[s]], meanwhile |-> <<>>]
    /\ last' = [op |-> "tx_transfer_read", ok |-> FALSE, src |-> s, dst |-> d, amt |-> amt,
                tx |-> None, pre |-> NoPre]
    /\ UNCHANGED <<balance, status, rep, txs, alerts, loans, invs, now>>

TxDepositMeanwhile(a, amt) ==
    /\ sess # NoSess /\ ~sess.dirty
    /\ Owner[a] = sess.owner
    /\ Len(sess.meanwhile) < MaxMeanwhile
    /\ LET R == TransactionServiceDeposit(Db, a, amt)
       IN /\ R.ok
          /\ Within(R.db)
          /\ balance' = R.db.bal
          /\ status' = R.db.st
          /\ rep' = R.db.rep
          /\ txs' = R.db.txs
          /\ alerts' = R.db.alerts
          /\ sess' = [sess EXCEPT !.meanwhile = Append(@, 1)]
          /\ last' = [op |-> "tx_deposit", ok |-> TRUE, src |-> None, dst |-> a, amt |-> amt,
                      tx |-> R.tx, pre |-> balance]
    /\ UNCHANGED <<loans, invs, now>>

FailedTransferWrite ==
    /\ sess # NoSess /\ ~sess.dirty
    /\ rep' = [rep EXCEPT ![sess.owner] = Max(0, sess.rep - 5)]
    /\ last' = [op |-> "tx_transfer", ok |-> FALSE, src |-> None, dst |-> None, amt |-> 0,
                tx |-> None, pre |-> [owner |-> sess.owner, rep |-> sess.rep,
                                      meanwhile |-> sess.meanwhile]]
    /\ sess' = NoSess
    /\ UNCHANGED <<balance, status, txs, alerts, loans, invs, now>>

NextReputation ==
    \/ \E s \in Acct, d \in Acct, amt \in {1800, 7200} : TxTransfer(s, d, amt)
    \/ \E a \in Acct : TxDeposit(a, 900)
    \/ \E s \in Acct, d \in Acct : FailedTransferRead(s, d, 7200)
    \/ \E a \in Acct : TxDepositMeanwhile(a, 900)
    \/ FailedTransferWrite

SpecReputation == Init /\ [][NextReputation]_vars

\* ------------------------------------------- the frequency of a source's attempts
\* withdrawals of a quarter of an hour through the route, which record a
\* Withdrawal, next to calls of check_transaction itself for a quarter of an
\* hour, half an hour and nine and a half hours from the same account; a rejected
\* call commits its Failed record and its alert.  The calls have their own
\* bounds on the records and the alerts.
MaxFrequencyTx == 5
MaxFrequencyAlerts == 2
FrequencyAmounts == {900, 1800, 34200}

FraudCheck(s, d, amt) ==
    /\ sess = NoSess
    /\ Len(txs) < MaxFrequencyTx
    /\ Len(alerts) < MaxFrequencyAlerts
    /\ LET f == CheckTransaction(Db, s, d, amt)
       IN /\ txs' = f.db.txs
          /\ alerts' = f.db.alerts
          /\ last' = [op |-> "fraud_check", ok |-> f.ok, src |-> s, dst |-> d, amt |-> amt,
                      tx |-> IF f.ok THEN None ELSE Len(txs) + 1,
                      pre |-> [score |-> RiskScore(Db, s, d, amt)]]
    /\ UNCHANGED <<balance, status, rep, loans, invs, now, sess>>

NextFrequency ==
    \/ Withdraw(2, 900)
    \/ \E d \in {None, 1}, amt \in FrequencyAmounts : FraudCheck(2, d, amt)
    \/ Tick

SpecFrequency == Init /\ [][NextFrequency]_vars

\* ------------------------------------------------------------------- claims
\* what the request that has just run sees: its session's objects if it left
\* changes uncommitted, the committed rows otherwise
ViewBal == IF sess.dirty THEN sess.bal ELSE balance
ViewSt == IF sess.dirty THEN sess.st ELSE status
ViewTxs == IF sess.dirty THEN sess.txs ELSE txs

\* C1: after any sequence of deposits, withdrawals and transfers every account
\* balance is >= 0.
C1_BalanceNonNegative == \A a \in Acct : balance[a] >= 0

\* a withdrawal or an outgoing transfer has just emptied its source account
C1_Witness ==
    /\ last.ok
    /\ last.op \in {"service_withdraw", "transfer", "tx_transfer"}
    /\ last.amt > 0
    /\ balance[last.src] = 0


\* C2: a transfer is all-or-nothing.  A transfer that fails (for example because
\* the destination is Frozen) leaves every balance and status as it was; a
\* transfer that succeeds has debited the source by the amount and credited the
\* destination by the amount, less the fee when the tax post-step took one.
C2_Step ==
    LET s == last'.src
        d == last'.dst
        amt == last'.amt
        fee == IF last'.op = "tx_transfer" THEN Percent(amt, TaxPercentage) ELSE 0
    IN last'.op \in {"transfer", "tx_transfer"} =>
         IF ~last'.ok THEN balance' = balance /\ status' = status
         ELSE IF s = d THEN balance'[s] \in {balance[s], balance[s] - fee}
         ELSE /\ balance'[s] = balance[s] - amt
              /\ balance'[d] \in {balance[d] + amt, balance[d] + amt - fee}

C2_TransferAllOrNothing == [][C2_Step]_vars

\* a funded Active source, a Frozen destination, a positive amount: the transfer failed
C2_Witness ==
    /\ last.op = "transfer"
    /\ ~last.ok
    /\ last.amt > 0
    /\ last.src # last.dst
    /\ status[last.src] = "ACTIVE"
    /\ status[last.dst] = "FROZEN"
    /\ balance[last.src] >= last.amt

\* C10: for a Frozen account deposit, withdraw, transfer-out and transfer-in are
\* all rejected, and the rejection changes no balance and leaves it Frozen.
C10_Step ==
    \A a \in Acct :
        ( /\ status[a] = "FROZEN"
          /\ last'.op \in {"deposit", "service_withdraw", "transfer", "tx_transfer"}
          /\ (last'.src = a \/ last'.dst = a) )
        => (~last'.ok /\ balance' = balance /\ status'[a] = "FROZEN")

C10_FrozenRejectsAll == [][C10_Step]_vars

\* a deposit of a positive amount into a Frozen account has just been rejected
C10_Witness ==
    /\ last.op = "deposit"
    /\ ~last.ok
    /\ last.amt > 0
    /\ last.amt <= MAX_TRANSACTION_AMOUNT
    /\ status[last.dst] = "FROZEN"

\* C3: undo is self-inverse.  When a Completed transfer T of amount A from X to Y
\* is undone right after it was executed, the undo succeeds, the balances of X
\* and Y are back at their values from before the transfer, and T is Reversed
\* (all three as the undoing request sees them).
C3_Step ==
    ( /\ sess = NoSess
      /\ last.op = "tx_transfer" /\ last.ok /\ last.src # last.dst
      /\ last'.op = "undo" /\ last'.tx = last.tx )
    => /\ last'.ok
       /\ sess'.dirty
       /\ sess'.bal = last.pre
       /\ sess'.txs[last.tx].status = "REVERSED"

C3_UndoSelfInverse == [][C3_Step]_vars

\* C4: undoing a transaction whose status is not Completed fails and changes no
\* balance, no account status and no transaction status, neither in the
\* committed rows nor in the session; and an undo that succeeds moves the amount
\* exactly once relative to the committed rows.
C4_Step ==
    (sess = NoSess /\ last'.op = "undo") =>
        LET t == last'.tx
        IN /\ <<balance', status', txs'>> = <<balance, status, txs>>
           /\ txs[t].status # "COMPLETED" => (~last'.ok /\ sess' = NoSess)
           /\ last'.ok =>
                 /\ sess'.dirty
                 /\ \A a \in Acct :
                       sess'.bal[a] = balance[a]
                                      + (IF txs[t].src = a THEN txs[t].amount ELSE 0)
                                      - (IF txs[t].dst = a THEN txs[t].amount ELSE 0)

C7_Step ==
    /\ ( /\ last'.op \in {"withdraw", "tx_transfer"}
         /\ last'.ok
         /\ status[last'.src] = "ACTIVE" )
       => (status'[last'.src] = "OVERDRAWN" <=> balance'[last'.src] < MinBalance[last'.src])
    /\ ( /\ last'.op = "tx_deposit"
         /\ last'.ok
         /\ status[last'.dst] = "OVERDRAWN" )
       => (status'[last'.dst] = "ACTIVE" <=> balance'[last'.dst] >= MinBalance[last'.dst])

C7_StatusFollowsBalance == [][C7_Step]_vars

\* C8: in every reachable state every account that is not Frozen is Overdrawn
\* exactly when its balance is below minBalance.
C8_OverdrawnIffBelowMin ==
    \A a \in Acct :
        status[a] # "FROZEN" => (status[a] = "OVERDRAWN" <=> balance[a] < MinBalance[a])

\* C9: an account becomes Frozen only by the administrative freeze (fraud
\* confirmation); a Frozen account stays Frozen, in the committed rows and in the
\* session of every request, until an explicit unfreeze, which sets Overdrawn
\* when the balance is below minBalance and Active otherwise.
C9_Step ==
    \A a \in Acct :
        /\ (status[a] # "FROZEN" /\ status'[a] = "FROZEN")
           => (last'.op \in {"resolve", "freeze"} /\ last'.src = a)
        /\ (status[a] = "FROZEN" /\ ~(last'.op = "unfreeze" /\ last'.src = a))
           => (status'[a] = "FROZEN" /\ (sess'.dirty => sess'.st[a] = "FROZEN"))
        /\ (status[a] = "FROZEN" /\ sess = NoSess /\ last'.op = "unfreeze" /\ last'.src = a)
           => status'[a] = (IF balance[a] < MinBalance[a] THEN "OVERDRAWN" ELSE "ACTIVE")

C9_FrozenOnlyByAdmin == [][C9_Step]_vars

\* C5: for any investment, once one withdraw has succeeded every later withdraw
\* on it fails and changes nothing, and over its whole lifetime the owning
\* account is credited for it exactly once: never twice, and an investment
\* that has left Active for good has been paid out.
C5_Step ==
    \A i \in 1..Len(invs') :
        /\ ( /\ i <= Len(invs)
             /\ invs[i].credits > 0
             /\ last'.op = "withdraw_investment"
             /\ last'.tx = i )
           => (~last'.ok /\ balance' = balance /\ invs' = invs)
        /\ invs'[i].credits <= 1
        /\ invs'[i].status # "ACTIVE" => invs'[i].credits = 1

C5_WithdrawOnceCreditOnce == [][C5_Step]_vars

\* the part of C5 that the code keeps: a second withdraw fails and no
\* investment is paid out twice
C5_PaidStep ==
    \A i \in 1..Len(invs) :
        /\ (invs[i].status # "ACTIVE" /\ last'.op = "withdraw_investment" /\ last'.tx = i)
           => (~last'.ok /\ balance' = balance /\ invs' = invs)
        /\ invs'[i].credits <= 1

C5_NoSecondPayout == [][C5_PaidStep]_vars

\* C6: over any sequence of payments, sweeps and market adjustments a loan's
\* remaining amount never goes below 0, and it never increases except through
\* the market adjustment of a Dynamic loan.
C6_Step ==
    /\ \A i \in 1..Len(loans') : loans'[i].remaining >= 0
    /\ \A i \in 1..Len(loans) :
          loans'[i].remaining > loans[i].remaining
          => (last'.op = "adjust_market_rates" /\ loans[i].strategy = "DYNAMIC")

C6_RemainingBoundedMonotone == [][C6_Step]_vars

\* a payment larger than what was left of a loan, after a market adjustment had
\* raised it, has just been applied and has left exactly 0
C6_Witness ==
    /\ last.op = "make_payment"
    /\ last.ok
    /\ last.amt > last.pre[1]
    /\ loans[last.tx].adjusted > 0
    /\ last.pre[1] > CalculateTotalRepayment(loans[last.tx])
    /\ loans[last.tx].remaining = 0

\* C11: an Overdrawn account accepts deposits and incoming transfers (as
\* destination) and rejects withdrawals and outgoing transfers, a rejection
\* leaving its balance unchanged.  "Accepts" is read for a request that
\* nothing else stands against: a positive amount, a safe fraud check, and for
\* a transfer an Active source that holds the amount.
C11_Step ==
    \A a \in Acct :
        (sess = NoSess /\ status[a] = "OVERDRAWN") =>
            /\ ( /\ last'.op = "tx_deposit" /\ last'.dst = a /\ last'.amt > 0
                 /\ RiskScore(Db, None, a, last'.amt) < FRAUD_RISK_THRESHOLD )
               => (last'.ok /\ balance'[a] >= balance[a] + last'.amt)
            /\ ( /\ last'.op = "tx_transfer" /\ last'.dst = a /\ last'.src # a
                 /\ last'.amt > 0
                 /\ status[last'.src] = "ACTIVE" /\ balance[last'.src] >= last'.amt
                 /\ RiskScore(Db, last'.src, a, last'.amt) < FRAUD_RISK_THRESHOLD )
               => (last'.ok /\ balance'[a] > balance[a])
            /\ (last'.op \in {"withdraw", "tx_transfer"} /\ last'.src = a)
               => (~last'.ok /\ balance'[a] = balance[a])

C11_OverdrawnPermissions == [][C11_Step]_vars

\* C12: every transaction record moves at most once from Pending to Completed
\* or Failed and afterwards only from Completed to Reversed, at most once;
\* Failed and Reversed are terminal and no record disappears.  The record is
\* read as the program sees it: the committed row, or the session's copy while
\* a session holds uncommitted changes.
C12_Step ==
    \A t \in 1..Len(ViewTxs) :
        /\ t <= Len(ViewTxs')
        /\ \/ ViewTxs'[t].status = ViewTxs[t].status
           \/ <<ViewTxs[t].status, ViewTxs'[t].status>>
                  \in {<<"PENDING", "COMPLETED">>, <<"PENDING", "FAILED">>,
                       <<"COMPLETED", "REVERSED">>}

C12_TransactionLifecycle == [][C12_Step]_vars

\* C13: when an operation fails after its Pending transaction record has been
\* created, every balance is as it was before the operation and no Pending
\* record of the operation remains in storage.
C13_Step ==
    (sess = NoSess /\ ~last'.ok /\ last'.op \in {"tx_transfer", "tx_deposit", "create_investment"})
        => /\ balance' = balance
           /\ \A t \in (Len(txs) + 1)..Len(txs') : txs'[t].status # "PENDING"

C13_FailureDiscardsPending == [][C13_Step]_vars

\* the scenario of C14: a transfer of 15000 s from an account that holds
\* 20000 s and whose owner's reputation is 85, no other risk factor holding
C14_Scenario ==
    /\ last.op = "check_transaction"
    /\ last.amt = 15000
    /\ last.pre.hasS /\ last.pre.sBal = 20000 /\ last.pre.sRep = 850
    /\ last.pre.sRecent <= 2
    /\ last.pre.hasD /\ last.pre.dRecent <= 2 /\ last.pre.dRep >= 900

C14_AlertCreated ==
    /\ alerts # <<>>
    /\ alerts[Len(alerts)].account = last.src
    /\ alerts[Len(alerts)].status = "OPEN"

\* C14 as stated: in the scenario the risk score is 0.9 (0.4 oversize + 0.4
\* over half the balance + 0.1 baseline), the check is unsafe and an alert is
\* created.
C14_ScenarioScoreNine ==
    C14_Scenario => (last.pre.score = 9 /\ ~last.ok /\ C14_AlertCreated)

\* C14, amended: in the scenario the risk score is 1.2 (0.4 oversize + 0.4 over
\* half the balance + 0.3 source owner reputation below 90 + 0.1 baseline), the
\* check is unsafe and an alert is created.
C14_ScenarioScoreTwelve ==
    C14_Scenario => (last.pre.score = 12 /\ ~last.ok /\ C14_AlertCreated)

\* the scenario's check has just run and has left its alert
C14_Witness == C14_Scenario /\ C14_AlertCreated

C16_AlertAndRecordTogether ==
    /\ \A k \in 1..Len(alerts) :
          /\ alerts[k].tx \in 1..Len(txs)
          /\ txs[alerts[k].tx].status = "FAILED"
    /\ \A t \in 1..Len(txs) :
          txs[t].status = "FAILED" => \E k \in 1..Len(alerts) : alerts[k].tx = t
    /\ last.op = "notify_suspicious_transaction" => last.ok

\* C17: resolving an Open alert sets it to Resolved when fraud is confirmed and
\* to FalsePositive otherwise; a confirmed fraud leaves the alert's account
\* Frozen whatever its balance or status was, and a false positive leaves every
\* account's status as it was.
C17_Step ==
    \A k \in 1..Len(alerts) :
        ( /\ sess = NoSess /\ alerts[k].status = "OPEN"
          /\ last'.op = "resolve" /\ last'.tx = k )
        => /\ last'.ok
           /\ last'.pre = <<TRUE>>
              => /\ alerts'[k].status = "RESOLVED"
                 /\ status'[alerts[k].account] = "FROZEN"
           /\ last'.pre = <<FALSE>>
              => /\ alerts'[k].status = "FALSE_POSITIVE"
                 /\ status' = status

C17_ResolveSetsStatus == [][C17_Step]_vars

\* a confirmed fraud has just frozen an account whose balance is below its
\* minimum
C17_Witness ==
    /\ last.op = "resolve" /\ last.ok /\ last.pre = <<TRUE>>
    /\ alerts[last.tx].status = "RESOLVED"
    /\ status[last.src] = "FROZEN"
    /\ balance[last.src] < MinBalance[last.src]

\* C18: once an alert has left Open its status never changes again, and every
\* later resolve call on it fails and changes neither the alert nor any
\* account's status, also when two resolve requests for the same alert are
\* handled side by side.
C18_Step ==
    \A k \in 1..Len(alerts) :
        alerts[k].status # "OPEN" =>
            /\ alerts'[k] = alerts[k]
            /\ (last'.op = "resolve" /\ last'.tx = k) => (~last'.ok /\ status' = status)

C18_ResolvableOnce == [][C18_Step]_vars

\* C19: a money-moving operation that is declined leaves every account's
\* balance and status, every loan's remaining amount and status and every
\* investment's status unchanged.
C19_Step ==
    ( /\ sess = NoSess
      /\ ~last'.ok
      /\ last'.op \in {"deposit", "service_withdraw", "withdraw", "transfer", "tx_transfer",
                       "tx_deposit", "undo", "create_investment", "withdraw_investment",
                       "create_loan", "make_payment"} )
    => /\ ViewBal' = balance /\ balance' = balance
       /\ ViewSt' = status /\ status' = status
       /\ Len(loans') = Len(loans)
       /\ \A i \in 1..Len(loans) :
             /\ loans'[i].remaining = loans[i].remaining
             /\ loans'[i].status = loans[i].status
       /\ Len(invs') = Len(invs)
       /\ \A i \in 1..Len(invs) : invs'[i].status = invs[i].status

C19_DeclinedChangesNothing == [][C19_Step]_vars

\* a payment the account could afford has just been declined because the loan
\* is already paid
C19_Witness ==
    /\ last.op = "make_payment" /\ ~last.ok
    /\ last.amt > 0
    /\ balance[last.src] >= last.amt
    /\ loans[last.tx].status = "PAID"

\* C20: a loan application for an account that is not Active or that has 3 or
\* more Active loans is rejected, creating no loan and crediting nothing; and no
\* account ever has more than 3 Active loans, also when several applications
\* for the same account are handled side by side.
C20_Step ==
    /\ \A a \in Acct :
          ( /\ last'.op = "create_loan" /\ last'.dst = a
            /\ (status[a] # "ACTIVE" \/ ActiveLoans(a) >= MaxActiveLoans) )
          => (~last'.ok /\ loans' = loans /\ balance' = balance)
    /\ \A a \in Acct : ActiveLoans(a)' <= MaxActiveLoans

C20_AtMostThreeActiveLoans == [][C20_Step]_vars

C22_Step ==
    \A i \in 1..Len(loans) :
        loans[i].status \in {"PAID", "DEFAULTED"} =>
            /\ loans'[i].status = loans[i].status
            /\ loans'[i].remaining = loans[i].remaining
            /\ (last'.op = "make_payment" /\ last'.tx = i)
               => (~last'.ok /\ balance' = balance)

C22_PaidAndDefaultedAreFinal == [][C22_Step]_vars

C24_EarlyDiscountTiers ==
    last.op = "early_apply_payment" =>
        LET i == last.pre
            d == i.days_remaining
            full == last.amt >= i.remaining
            off == IF full /\ 4 * d >= 3 * i.term THEN 15
                   ELSE IF full /\ 2 * d >= i.term THEN 10
                   ELSE IF full /\ 4 * d >= i.term THEN 5
                   ELSE 0
        IN i.discounted = (i.remaining * (100 - off)) \div 100

\* C25: both periodic sweeps are status-only.  The overdue sweep turns exactly
\* the Active loans whose due date has passed into Defaulted, the maturity sweep
\* turns exactly the Active investments whose maturity date has come into
\* Matured, and neither changes an account balance, a loan's remaining amount,
\* or a record that does not qualify.
C25_Step ==
    /\ last'.op = "check_overdue_loans" =>
          /\ balance' = balance /\ status' = status /\ txs' = txs /\ invs' = invs
          /\ Len(loans') = Len(loans)
          /\ \A i \in 1..Len(loans) :
                loans'[i] = IF loans[i].status = "ACTIVE" /\ Age(loans[i]) >= loans[i].term
                            THEN [loans[i] EXCEPT !.status = "DEFAULTED"]
                            ELSE loans[i]
    /\ last'.op = "check_matured_investments" =>
          /\ balance' = balance /\ status' = status /\ txs' = txs /\ loans' = loans
          /\ Len(invs') = Len(invs)
          /\ \A i \in 1..Len(invs) :
                invs'[i] = IF invs[i].status = "ACTIVE" /\ Age(invs[i]) >= invs[i].term
                           THEN [invs[i] EXCEPT !.status = "MATURED"]
                           ELSE invs[i]

C25_SweepsStatusOnly == [][C25_Step]_vars

\* C26: withdrawing an Active investment before its maturity date returns
\* exactly the principal and sets the status Withdrawn; withdrawing it at or
\* after the maturity date returns floor(principal * (1 + rate) * (1 +
\* (termDays / 30) * 0.02)) and sets the status Matured; in both cases the
\* account is credited exactly the returned amount.  The rate is 1.5 times
\* the account type's rate of pct / 100, so the product is
\* principal * (200 + 3 pct) * (1500 + termDays) / 300000.
C26_Step ==
    (last'.op = "withdraw_investment" /\ last'.ok) =>
        LET i == last'.tx
            v == invs[i]
            early == Age(v) < v.term
            returned == IF early THEN v.amount
                        ELSE (v.amount * (200 + 3 * v.rate) * (1500 + v.term)) \div 300000
        IN /\ v.status = "ACTIVE"
           /\ last'.amt = returned
           /\ invs'[i].status = (IF early THEN "WITHDRAWN" ELSE "MATURED")
           /\ balance'[v.account] = balance[v.account] + returned

C26_WithdrawReturns == [][C26_Step]_vars

\* C27: an investment that the maturity sweep has moved to Matured can still
\* be withdrawn afterwards, which credits calculateReturn() to its account: no
\* investment is ever in a state in which its funds have not been paid out and
\* no withdraw can succeed.
C27_NeverStranded ==
    \A i \in 1..Len(invs) :
        invs[i].credits = 0 =>
            LET w == InvestmentWithdraw(invs[i])
            IN w.ok /\ (invs[i].status = "MATURED" => w.amount = CalculateReturn(invs[i]))

\* C28: after a successful transfer of amount A the post-step withdraws a tax
\* of floor(A * 2%) from the destination account, never from the source, and
\* records it as one separate Completed Fee transaction of that amount whose
\* source is the destination account; a failed or declined transfer incurs no
\* tax.
C28_Step ==
    last'.op = "tx_transfer" =>
        LET s == last'.src
            d == last'.dst
            A == last'.amt
            tax == (A * 2) \div 100
            fees == {j \in Len(txs) + 1..Len(txs') : txs'[j].type = "Fee"}
        IN IF last'.ok
           THEN /\ Cardinality(fees) = 1
                /\ \A j \in fees : /\ txs'[j].src = d
                                   /\ txs'[j].src # s
                                   /\ txs'[j].amount = tax
                                   /\ txs'[j].status = "COMPLETED"
                /\ balance'[d] = (IF s = d THEN balance[d] ELSE balance[d] + A) - tax
                /\ s # d => balance'[s] = balance[s] - A
           ELSE /\ fees = {}
                /\ balance'[d] <= balance[d]

C28_TransferTax == [][C28_Step]_vars

\* C29: a successful deposit of amount A earns exactly one bonus, credited to
\* the depositing account and recorded as exactly one separate Completed bonus
\* Deposit transaction: floor(A * 5%) for an ordinary account and
\* floor(A * 10%) for a savings-type account.
C29_Step ==
    (last'.op = "tx_deposit" /\ last'.ok) =>
        LET a == last'.dst
            A == last'.amt
            bonus == (A * (IF TypeName[a] = "SavingsAccount" THEN 10 ELSE 5)) \div 100
            added == Len(txs) + 1..Len(txs')
            bonuses == added \ {last'.tx}
        IN /\ last'.tx \in added
           /\ Cardinality(bonuses) = 1
           /\ \A j \in bonuses : /\ txs'[j].type = "Deposit"
                                 /\ txs'[j].dst = a
                                 /\ txs'[j].amount = bonus
                                 /\ txs'[j].status = "COMPLETED"
           /\ balance'[a] = balance[a] + A + bonus

C29_DepositBonus == [][C29_Step]_vars

\* C30: every declined business operation (non-positive amount, unknown
\* repayment strategy or type, insufficient balance, status not permitting the
\* operation, missing entity, conflict) ends in a structured result with
\* success = false; none of these conditions leaves the operation as an
\* exception.
C30_DeclinedIsStructured ==
    ~last.ok => ~(last.op = "create_loan" /\ last.pre = Raised("ValueError"))

\* C31: deposit, withdraw, transfer, loan creation, loan payment and investment
\* creation called with an amount <= 0 are rejected: no balance changes, no
\* loan or investment is created, and no transaction record for the attempt
\* remains in storage.
C31_Step ==
    ( /\ last'.op \in {"tx_deposit", "withdraw", "tx_transfer", "create_loan",
                       "make_payment", "create_investment"}
      /\ last'.amt <= 0 )
    => /\ ~last'.ok
       /\ balance' = balance
       /\ loans' = loans
       /\ invs' = invs
       /\ txs' = txs

C31_NonPositiveRejected == [][C31_Step]_vars

\* C32: mutating operations on the same account are serialized: when two of
\* them run concurrently, the final balance and status equal those of some
\* serial order of the same operations, so no balance update is lost and the
\* balance never goes negative.
C32_Run(D, a, o) ==
    IF o.op = "deposit" THEN AccountServiceDeposit(D, a, o.amount).db
    ELSE AccountServiceWithdraw(D, a, o.amount).db

C32_Serializable ==
    /\ \A a \in Acct : balance[a] >= 0
    /\ (last.op = "service_withdraw" /\ last.pre # NoPre /\ Len(last.pre.meanwhile) = 1) =>
          LET a == last.src
              mine == [op |-> "withdraw", amount |-> last.amt]
              other == last.pre.meanwhile[1]
              D0 == [Db EXCEPT !.bal[a] = last.pre.bal, !.st[a] = last.pre.st]
              first == C32_Run(C32_Run(D0, a, mine), a, other)
              second == C32_Run(C32_Run(D0, a, other), a, mine)
          IN \/ balance[a] = first.bal[a] /\ status[a] = first.st[a]
             \/ balance[a] = second.bal[a] /\ status[a] = second.st[a]

\* C33: an owner's reputation score always stays within [0, 100] and reflects
\* every adjustment made to it (+0.1 per successful transfer or deposit, -0.5
\* per failed transfer, clamped): when transactions of the same owner run
\* concurrently, no adjustment is lost.  Scores are in tenths.
C33_ReputationKeepsAdjustments ==
    /\ \A u \in User : rep[u] \in 0..1000
    /\ (last.op = "tx_transfer" /\ last.pre # NoPre /\ ~last.ok /\ last.tx = None
            /\ last.src = None) =>
          LET u == last.pre.owner
              r0 == last.pre.rep
              up(r) == IF Len(last.pre.meanwhile) = 1 THEN Min(1000, r + 1) ELSE r
              down(r) == Max(0, r - 5)
          IN rep[u] \in {up(down(r0)), down(up(r0))}

\* C34: while an account is Frozen, no operation of any kind changes its
\* balance: not only deposit, withdraw and transfer but also the reversal of an
\* earlier transaction, the fee and bonus post-steps, a loan payment, and an
\* investment withdrawal credited to it.
C34_Step == \A a \in Acct : status[a] = "FROZEN" => balance'[a] = balance[a]

C34_FrozenBalanceFixed == [][C34_Step]_vars

\* C35: a loan payment never debits the account by more than the loan's
\* remaining amount at the time of payment: when the requested payment exceeds
\* the remaining amount, the account is debited only the amount actually
\* applied to the loan.
C35_Step ==
    (last'.op = "make_payment" /\ last'.ok) =>
        LET i == last'.tx
            a == loans[i].account
            debit == balance[a] - balance'[a]
        IN /\ debit <= loans[i].remaining
           /\ debit <= loans[i].remaining - loans'[i].remaining

C35_DebitAtMostRemaining == [][C35_Step]_vars

\* C36: when an Early-strategy discount applies to a full payoff, the
\* borrower's account is debited the discounted amount (the remaining amount
\* after the discount), not the undiscounted payment amount.
C36_Step ==
    ( /\ last'.op = "make_payment" /\ last'.ok
      /\ loans[last'.tx].strategy = "EARLY"
      /\ EarlyDiscountPercent(loans[last'.tx], last'.amt) < 100 )
    => LET L == loans[last'.tx]
       IN balance'[L.account]
              = balance[L.account] - (L.remaining * EarlyDiscountPercent(L, last'.amt)) \div 100

C36_DiscountedDebit == [][C36_Step]_vars

\* C37: when undo_transaction reports success, the reversal is durable: the
\* Reversed status and the reversed account balances are committed to storage
\* together, so a reader in a fresh session sees the transaction as Reversed
\* and the balances restored.
C37_Step ==
    (sess = NoSess /\ last'.op = "undo" /\ last'.ok) =>
        LET t == last'.tx
        IN /\ txs'[t].status = "REVERSED"
           /\ balance' = Reverse(Db, t).db.bal

C37_UndoDurable == [][C37_Step]_vars

\* C38: a successful transfer of amount A between two accounts conserves time:
\* the source balance decreases by exactly A, the destination balance increases
\* by exactly A minus the fee recorded for the transfer (nothing when no Fee
\* record was written), no other account's balance changes, and the sum of all
\* balances decreases by exactly the recorded fee.
C38_RecordedFee(before, after) ==
    LET fees == {j \in Len(before) + 1..Len(after) : after[j].type = "Fee"}
    IN IF fees = {} THEN 0 ELSE after[CHOOSE j \in fees : TRUE].amount

C38_Total(b) == b[1] + b[2]

C38_Step ==
    (last'.op = "tx_transfer" /\ last'.ok) =>
        LET s == last'.src
            d == last'.dst
            A == last'.amt
            fee == C38_RecordedFee(txs, txs')
        IN /\ Cardinality({j \in Len(txs) + 1..Len(txs') : txs'[j].type = "Fee"}) <= 1
           /\ s # d => /\ balance'[s] = balance[s] - A
                       /\ balance'[d] = balance[d] + A - fee
           /\ \A c \in Acct \ {s, d} : balance'[c] = balance[c]
           /\ C38_Total(balance') = C38_Total(balance) - fee

C40_Recorded(T, s) == Cardinality({i \in 1..Len(T) : T[i].src = s /\ T[i].recent})

C40_Step ==
    (last'.op = "fraud_check" /\ last'.src # None) =>
        LET s == last'.src
            d == last'.dst
            others == RiskScoreOf(last'.amt, TRUE, balance[s], 0, rep[Owner[s]],
                                  d # None,
                                  IF d # None THEN RecentIn(Db, d) ELSE 0,
                                  IF d # None THEN rep[Owner[d]] ELSE 0)
        IN /\ ~last'.ok => /\ Len(txs') = Len(txs) + 1
                           /\ txs'[Len(txs')].status = "FAILED"
                           /\ C40_Recorded(txs', s) = C40_Recorded(txs, s) + 1
           /\ C40_Recorded(txs, s) > 2 => /\ last'.pre.score = others + 3
                                          /\ last'.ok = (others + 3 < FRAUD_RISK_THRESHOLD)

C40_FailedCountsInFrequency == [][C40_Step]_vars

\* two withdrawals and a rejected attempt of the hour are on record, and a
\* further check of half an hour, which the other weights alone would pass with
\* a score of 0.5, has been rejected with 0.8
C40_Witness ==
    /\ last.op = "fraud_check" /\ ~last.ok
    /\ last.amt = 1800
    /\ last.pre.score = 8
    /\ Len(txs) = 4
    /\ \E i \in 1..3 : txs[i].status = "FAILED"
    /\ \E i \in 1..3 : txs[i].status = "COMPLETED"
    /\ \A i \in 1..4 : txs[i].src = last.src /\ txs[i].recent
    /\ Len(alerts) = 2

\* C39: a transfer whose source and destination are the same account is either
\* rejected or has no net effect on that account: its balance and its status
\* after the transfer equal those before.
C39_Step ==
    (last'.op = "tx_transfer" /\ last'.src = last'.dst) =>
        \/ ~last'.ok
        \/ /\ balance'[last'.src] = balance[last'.src]
           /\ status'[last'.src] = status[last'.src]

C39_SelfTransferNeutral == [][C39_Step]_vars

====
